---- MODULE Spec2Model ----
(***************************************************************************)
(* ndi-monitor: the reconfiguration channel of app.py (select_source,      *)
(* update_settings), the streamed sink's reader loop (mjpeg.gen), the      *)
(* per-handle discipline of ndi.NDIReceiver (get_jpeg_frame,               *)
(* get_rgb_frame, close) and the direct sink's connect_to_source.          *)
(*                                                                         *)
(* Every request of the web application runs on its own worker thread, so  *)
(* a handler is a sequence of steps of one thread; a step boundary is put  *)
(* wherever another thread can observe or change shared state: at every    *)
(* lock acquisition and at every call that can take time (the capture      *)
(* primitive, the construction of a receiver).                             *)
(***************************************************************************)
EXTENDS Integers, FiniteSets, Sequences, TLC

(* ------------------------------ bounds --------------------------------- *)
NumReaders == 2
NumSwapReaders == 1
NumSelectors == 2
NumUpdaters == 2
NumCallers == 3
NumFairSelectors == 1
NumFairUpdaters == 1
MaxHandles == 2
MaxTs == 2
MaxSaves == 1
MaxPad == 2
MaxRecomputes == 3

(* ------------------------- program constants --------------------------- *)
MinQuality == 20
MaxQuality == 95
MinWidth == 160
MaxWidth == 3840
MinHeight == 120
MaxHeight == 2160
DefaultQuality == 80

(* ------------------------------ threads -------------------------------- *)
Readers == 1 .. NumReaders
SwapReaders == 1 .. NumSwapReaders
Selectors == 11 .. (10 + NumSelectors)
Updaters == 21 .. (20 + NumUpdaters)
Callers == 41 .. (40 + NumCallers)
NoOwner == 0

Handles == 1 .. MaxHandles
None == 0

Names == {"A", "B"}
NoName == ""

VARIABLES
    receiver,               \* app.receiver: a handle or None
    receiver_lock,          \* owner of app.receiver_lock
    selected_source_name,   \* app.selected_source_name
    cfgSelected,            \* "selected_source" of the persisted config file
    settings_lock,          \* owner of app.settings_lock
    jpeg_quality, output_width, output_height,
    hstate,                 \* per NDIReceiver object: unborn/constructing/live/closed/failed
    hname,                  \* NDIReceiver.source_name
    hlock,                  \* owner of NDIReceiver._lock
    nh,                     \* number of NDIReceiver objects constructed so far
    pcR, snap, sq, sw, sh,  \* mjpeg.gen: position, r, q, w, h
    srcTs,                  \* timestamp of the latest frame the source has sent
    hTs,                    \* per NDIReceiver: timestamp of the last frame it captured
    lastTs,                 \* per reader: timestamp of the last frame of its stream
    pcS, sname, newH, resS, \* select_source: position, name, object under construction, response
    pcU, uq, pw, ph, resU,  \* update_settings: position, clamped q, payload size fields, response
    pcC,                    \* a direct caller of one NDIReceiver: position
    nCloses,                \* history: close calls the callers have completed (2: two or more)
    nDestroyed,             \* history: NDIlib_recv_destroy calls those close calls made
    pcV,                    \* one capture call with a video frame in hand: position
    cvType,                 \* what the call got: closed (no capture made), none, other, video
    cvFourCC, cvPix,        \* the frame: video_frame.FourCC, the bytes at p_data
    cvStride, cvYres,       \* the frame: line_stride_in_bytes (0: not set), yres
    cvMethod, cvResize,     \* get_jpeg_frame or get_rgb_frame; output size given
    cvFails,                \* the PIL step (resize, save) of this call raises
    cvNumba,                \* NUMBA_AVAILABLE of the build
    cvView,                 \* rgb_array is a view of the frame buffer
    cvRgb,                  \* the pixels the conversion computed
    cvReleased,             \* calls of NDIlib_recv_free_video_v2 on the frame
    cvResult,               \* what the call returns: none/bytes/array/raise
    cvSeen,                 \* what the caller reads from a returned array
    dispSelected, dispReceiver, \* NDIDisplay.selected_source, NDIDisplay.receiver
    cfgBlank,               \* "hdmi_blank" of the persisted config file
    cfgState,               \* the config file as a reader finds it: ok/missing/corrupt
    cfgMessage,             \* "no_connection_message" of the config file (NoMessage: no key)
    resCfg,                 \* the last answer of _get_config_dict
    cfgIno, tmpIno,         \* the files at CONFIG_FILE and at its .tmp path (NoFile: none)
    inoData,                \* per file: its content
    pcW,                    \* _save_config_fields, per caller: position
    wUpd, wCur,             \* its update, its `current` dict
    wFd,                    \* the file its open(tmp, "w") handle writes to
    wCalls, wLast,          \* calls it has begun; the update of its last finished call
    pcD,                    \* NDIDisplay: position in __init__, run and its loop
    dispBlank,              \* NDIDisplay.hdmi_blank
    blank_alpha,            \* NDIDisplay.blank_alpha
    fadeFull, fadeClear,    \* NDIDisplay._fade_full_emitted, _fade_clear_emitted
    dispMessage,            \* NDIDisplay.no_connection_message, as a list of pieces
    dBranch,                \* the branch render_frame took in the current iteration
    dText,                  \* the text the fallback branch rendered in this iteration
    dFaded, dFlipped,       \* render_frame ran its fade block / pygame.display.flip()
    dPending,               \* history: a change of hdmi_blank was taken and no fade event printed since
    fadeSum,                \* history: the steps added up since blanking began at alpha 0 (-1: no such run)
    fullEvents,             \* history: "Fade complete: black" lines printed in that run
    cachedFrame,            \* NDIDisplay._cached_frame_size
    cachedScaled,           \* NDIDisplay._cached_scaled_size
    srcSizes,               \* the frame sizes the source of the display sends
    dSize,                  \* frame_size of the frame got in this iteration, <<0, 0>> without one
    dBlit,                  \* the blit of this iteration: <<width, height, x, y>>, <<>> without one
    dRecomputed,            \* history: this iteration computed the scaled size
    prevSize,               \* history: frame_size of the frame before, <<0, 0>> at the first
    seenSizes,              \* history: the frame sizes got so far
    nRecompute, nRuns       \* history: computations of the scaled size / changes of frame size

chanVars == <<receiver, receiver_lock, selected_source_name, cfgSelected>>
setVars == <<settings_lock, jpeg_quality, output_width, output_height>>
handleVars == <<hstate, hname, hlock, nh>>
streamVars == <<srcTs, hTs, lastTs>>
readerVars == <<pcR, snap, sq, sw, sh, streamVars>>
selVars == <<pcS, sname, newH, resS>>
updVars == <<pcU, uq, pw, ph, resU>>
convVars == <<pcV, cvType, cvFourCC, cvPix, cvStride, cvYres, cvMethod, cvResize, cvFails, cvNumba, cvView, cvRgb,
              cvReleased, cvResult, cvSeen>>
callVars == <<pcC, nCloses, nDestroyed, convVars>>
fileVars == <<cfgIno, tmpIno, inoData, pcW, wUpd, wCur, wFd, wCalls, wLast>>
cfgVars == <<cfgBlank, cfgState, cfgMessage, resCfg, fileVars>>
fadeObs == <<dPending, fadeSum, fullEvents>>
scaleVars == <<cachedFrame, cachedScaled, srcSizes, dSize, dBlit, dRecomputed, prevSize,
               seenSizes, nRecompute, nRuns>>
loopVars == <<pcD, dispBlank, blank_alpha, fadeFull, fadeClear, dispMessage, dBranch, dText,
              dFaded, dFlipped, fadeObs, scaleVars>>
dispVars == <<dispSelected, dispReceiver, cfgVars, loopVars>>
vars == <<chanVars, setVars, handleVars, readerVars, selVars, updVars, callVars, dispVars>>

(* ------------------------------ helpers -------------------------------- *)
\* A field of a JSON payload: absent, an integer, or a value int() rejects.
Absent == [t |-> "absent"]
NonInt == [t |-> "nonint"]
IntField(n) == [t |-> "int", v |-> n]
NoPayload == [t |-> "none"]

Max(a, b) == IF a >= b THEN a ELSE b
Min(a, b) == IF a <= b THEN a ELSE b

\* A plausible slip: only the upper end of the quality range is enforced.
ClampQuality_NoFloor(q) == Min(MaxQuality, q)

\* q = max(20, min(95, q))
ClampQuality(q) == Max(MinQuality, Min(MaxQuality, q))
\* w = max(160, min(3840, w))
ClampWidth(w) == Max(MinWidth, Min(MaxWidth, w))
\* h = max(120, min(2160, h))
ClampHeight(h) == Max(MinHeight, Min(MaxHeight, h))

(* --------------------------- initial state ----------------------------- *)
\* app.py module level: no receiver, no selection, default settings, every
\* lock free, every handler idle; the config file holds no selection yet.
\* No frame has been sent, captured or streamed yet.
InitStream ==
    /\ srcTs = 0
    /\ hTs = [h \in Handles |-> 0]
    /\ lastTs = [r \in Readers |-> 0]

InitApp ==
    /\ receiver = None
    /\ receiver_lock = NoOwner
    /\ selected_source_name = NoName
    /\ cfgSelected = NoName
    /\ settings_lock = NoOwner
    /\ jpeg_quality = DefaultQuality
    /\ output_width = 0
    /\ output_height = 0
    /\ pcR = [r \in Readers |-> "off"]
    /\ snap = [r \in Readers |-> None]
    /\ sq = [r \in Readers |-> 0]
    /\ sw = [r \in Readers |-> 0]
    /\ sh = [r \in Readers |-> 0]
    /\ InitStream
    /\ pcS = [s \in Selectors |-> "idle"]
    /\ sname = [s \in Selectors |-> NoName]
    /\ newH = [s \in Selectors |-> None]
    /\ resS = [s \in Selectors |-> "none"]
    /\ pcU = [u \in Updaters |-> "idle"]
    /\ uq = [u \in Updaters |-> 0]
    /\ pw = [u \in Updaters |-> Absent]
    /\ ph = [u \in Updaters |-> Absent]
    /\ resU = [u \in Updaters |-> "none"]

InitHandles ==
    /\ hstate = [h \in Handles |-> "unborn"]
    /\ hname = [h \in Handles |-> NoName]
    /\ hlock = [h \in Handles |-> NoOwner]
    /\ nh = 0

\* NDIDisplay.__init__ (display.py 24-53), before load_config: the fields as
\* the constructor sets them.
DefaultMessage == <<"No NDI Source">>

\* Nothing has changed hdmi_blank yet and nothing is blanking.
InitFadeObs ==
    /\ dPending = FALSE
    /\ fadeSum = -1
    /\ fullEvents = 0

\* __init__ (49-51): the cache is empty; no frame has been got.
NoSize == <<0, 0>>

InitScaleCache ==
    /\ cachedFrame = NoSize
    /\ cachedScaled = NoSize
    /\ dSize = NoSize
    /\ dBlit = <<>>
    /\ dRecomputed = FALSE
    /\ prevSize = NoSize
    /\ seenSizes = {}
    /\ nRecompute = 0
    /\ nRuns = 0

InitDisplayLoop ==
    /\ dispSelected = NoName
    /\ dispReceiver = None
    /\ pcD = "init"
    /\ dispBlank = FALSE
    /\ blank_alpha = 0
    /\ fadeFull = FALSE
    /\ fadeClear = FALSE
    /\ dispMessage = DefaultMessage
    /\ dBranch = "none"
    /\ dText = <<>>
    /\ dFaded = FALSE
    /\ dFlipped = FALSE
    /\ InitFadeObs
    /\ InitScaleCache

\* The source of the display sends 1280x720 frames.
InitDisplayFields == InitDisplayLoop /\ srcSizes = {<<1280, 720>>}

\* The config file holds no blank flag yet and reads well; nothing has asked
\* for the config.
\* The endpoints that save config fields: select_source saves
\* "selected_source" (app.py 317), set_hdmi saves "hdmi_blank" (app.py 454).
ConfigWriters == {"select_source", "set_hdmi"}

\* Files are numbered; the paths CONFIG_FILE and .tmp and one open handle per
\* endpoint can each hold a different one.
NoFile == 0
Inodes == 1 .. (2 + Cardinality(ConfigWriters))

\* A dict of the two keys; a key can be absent.
EmptyDict == [src |-> NoName, blank |-> "absent"]

\* The content of a file: nothing, one json.dump of a dict, or the bytes of
\* one dump followed by what is left of a longer one.
EmptyContent == [t |-> "empty", len |-> 0, doc |-> EmptyDict]

\* No _save_config_fields call is being followed at the level of files.
InitNoSaves ==
    /\ cfgIno = NoFile
    /\ tmpIno = NoFile
    /\ inoData = [i \in Inodes |-> EmptyContent]
    /\ pcW = [w \in ConfigWriters |-> "idle"]
    /\ wUpd = [w \in ConfigWriters |-> EmptyDict]
    /\ wCur = [w \in ConfigWriters |-> EmptyDict]
    /\ wFd = [w \in ConfigWriters |-> NoFile]
    /\ wCalls = [w \in ConfigWriters |-> 0]
    /\ wLast = [w \in ConfigWriters |-> EmptyDict]

\* The config file holds no "no_connection_message" key.
NoMessage == <<>>

InitConfigFile ==
    /\ cfgBlank = FALSE
    /\ cfgState = "ok"
    /\ cfgMessage = NoMessage
    /\ resCfg = NoPayload
    /\ InitNoSaves

\* No capture call with a frame in hand is being followed.
NoPixels == <<>>

InitNoFrame ==
    /\ pcV = "idle"
    /\ cvType = "video"
    /\ cvFourCC = "UYVY"
    /\ cvPix = NoPixels
    /\ cvStride = 0
    /\ cvYres = 1
    /\ cvMethod = "jpeg"
    /\ cvResize = FALSE
    /\ cvFails = FALSE
    /\ cvNumba = FALSE
    /\ cvView = FALSE
    /\ cvRgb = NoPixels
    /\ cvReleased = 0
    /\ cvResult = "none"
    /\ cvSeen = "nothing"

InitCallers ==
    /\ pcC = [c \in Callers |-> "idle"]
    /\ nCloses = 0
    /\ nDestroyed = 0
    /\ InitNoFrame

InitIdle ==
    /\ InitCallers
    /\ InitDisplayFields
    /\ InitConfigFile

Init == InitApp /\ InitHandles /\ InitIdle

(* ------------------- NDIReceiver (ndi.py 279-485) ---------------------- *)
\* A plausible slip: the capture path takes no lock at all.
HandleLockFree_Unlocked(h) == TRUE

\* `with self._lock:` of get_jpeg_frame, get_rgb_frame and close: the lock is
\* taken only when no thread owns it.
HandleLockFree(h) == hlock[h] = NoOwner

\* The number of calls of the capture primitive in flight on h, over every
\* kind of caller.
InFlight(h) ==
    Cardinality({r \in Readers : pcR[r] = "capture" /\ snap[r] = h})
    + Cardinality({c \in Callers : pcC[c] \in {"jpegCapture", "rgbCapture"} /\ h = 1})

\* A plausible slip: close without its `if not self._closed` test.
CloseDestroys_NoClosedFlag(h) == hstate[h] \in {"live", "closed"}

\* close calls NDIlib_recv_destroy when _closed is false and the object has a
\* native receiver: not on an object already closed, and not on one whose
\* constructor raised before NDIlib_recv_create_v3 returned a receiver.
CloseDestroys(h) == hstate[h] = "live"

\* NDIReceiver.close: under the handle lock, once: _closed = True and the
\* native receiver is destroyed.
CloseHandle(h) == [hstate EXCEPT ![h] = IF @ = "live" THEN "closed" ELSE @]

(* ---------------- mjpeg.gen, one iteration (app.py 625-648) ------------ *)
\* GET /mjpeg: a client connects and its generator starts.
RdConnect(r) ==
    /\ pcR[r] = "off"
    /\ pcR' = [pcR EXCEPT ![r] = "top"]
    /\ UNCHANGED <<chanVars, setVars, handleVars, snap, sq, sw, sh,
                   selVars, updVars, callVars, dispVars, streamVars>>

\* with receiver_lock:  (acquire)
RdLock(r) ==
    /\ pcR[r] = "top"
    /\ receiver_lock = NoOwner
    /\ receiver_lock' = r
    /\ pcR' = [pcR EXCEPT ![r] = "rlocked"]
    /\ UNCHANGED <<receiver, selected_source_name, cfgSelected, setVars, handleVars,
                   snap, sq, sw, sh, selVars, updVars, callVars, dispVars, streamVars>>

\* A plausible slip: the capture call written inside the `with receiver_lock:`
\* block, so the lock is still held when the iteration goes on.
RdSnapshot_KeepLock(r) ==
    /\ pcR[r] = "rlocked"
    /\ snap' = [snap EXCEPT ![r] = receiver]
    /\ pcR' = [pcR EXCEPT ![r] = IF receiver = None THEN "top" ELSE "setwait"]
    /\ UNCHANGED <<chanVars, setVars, handleVars,
                   sq, sw, sh, selVars, updVars, callVars, dispVars, streamVars>>

\* r = receiver; release; `if r is None: sleep; continue`
RdSnapshot(r) ==
    /\ pcR[r] = "rlocked"
    /\ snap' = [snap EXCEPT ![r] = receiver]
    /\ receiver_lock' = NoOwner
    /\ pcR' = [pcR EXCEPT ![r] = IF receiver = None THEN "top" ELSE "setwait"]
    /\ UNCHANGED <<receiver, selected_source_name, cfgSelected, setVars, handleVars,
                   sq, sw, sh, selVars, updVars, callVars, dispVars, streamVars>>

\* with settings_lock:  (acquire)
RdSetLock(r) ==
    /\ pcR[r] = "setwait"
    /\ settings_lock = NoOwner
    /\ settings_lock' = r
    /\ pcR' = [pcR EXCEPT ![r] = "slocked"]
    /\ UNCHANGED <<chanVars, jpeg_quality, output_width, output_height, handleVars,
                   snap, sq, sw, sh, selVars, updVars, callVars, dispVars, streamVars>>

\* q, w, h = jpeg_quality, output_width, output_height; release
\* A plausible slip: the quality read once, when the module was loaded,
\* instead of on every iteration.
RdSetSnapshot_StaleQuality(r) ==
    /\ pcR[r] = "slocked"
    /\ sq' = [sq EXCEPT ![r] = DefaultQuality]
    /\ sw' = [sw EXCEPT ![r] = output_width]
    /\ sh' = [sh EXCEPT ![r] = output_height]
    /\ settings_lock' = NoOwner
    /\ pcR' = [pcR EXCEPT ![r] = "hwait"]
    /\ UNCHANGED <<chanVars, jpeg_quality, output_width, output_height, handleVars,
                   snap, selVars, updVars, callVars, dispVars, streamVars>>

RdSetSnapshot(r) ==
    /\ pcR[r] = "slocked"
    /\ sq' = [sq EXCEPT ![r] = jpeg_quality]
    /\ sw' = [sw EXCEPT ![r] = output_width]
    /\ sh' = [sh EXCEPT ![r] = output_height]
    /\ settings_lock' = NoOwner
    /\ pcR' = [pcR EXCEPT ![r] = "hwait"]
    /\ UNCHANGED <<chanVars, jpeg_quality, output_width, output_height, handleVars,
                   snap, selVars, updVars, callVars, dispVars, streamVars>>

\* The locals of an iteration are dead once it ends; they are reset so that
\* two iterations that differ only in dead values are one state.
RdReset(r, to) ==
    /\ pcR' = [pcR EXCEPT ![r] = to]
    /\ snap' = [snap EXCEPT ![r] = None]
    /\ sq' = [sq EXCEPT ![r] = 0]
    /\ sw' = [sw EXCEPT ![r] = 0]
    /\ sh' = [sh EXCEPT ![r] = 0]

\* r.get_jpeg_frame(...): `with self._lock:` then `if self._closed: return None`
\* (back in gen: sleep, continue); otherwise the capture primitive is called
\* with the handle lock held.
\* A plausible slip: get_jpeg_frame without its `if self._closed` test.
RdEnterJpeg_NoClosedCheck(r) ==
    /\ pcR[r] = "hwait"
    /\ HandleLockFree(snap[r])
    /\ hlock' = [hlock EXCEPT ![snap[r]] = r]
    /\ pcR' = [pcR EXCEPT ![r] = "capture"]
    /\ UNCHANGED <<snap, sq, sw, sh>>
    /\ UNCHANGED <<chanVars, setVars, hstate, hname, nh, selVars, updVars, callVars, dispVars, streamVars>>

RdEnterJpeg(r) ==
    /\ pcR[r] = "hwait"
    /\ HandleLockFree(snap[r])
    /\ IF hstate[snap[r]] = "closed"
          THEN /\ RdReset(r, "top")
               /\ UNCHANGED hlock
          ELSE /\ hlock' = [hlock EXCEPT ![snap[r]] = r]
               /\ pcR' = [pcR EXCEPT ![r] = "capture"]
               /\ UNCHANGED <<snap, sq, sw, sh>>
    /\ UNCHANGED <<chanVars, setVars, hstate, hname, nh, selVars, updVars, callVars, dispVars, streamVars>>

\* NDIlib_recv_capture_v2 returns within timeout_ms. No video frame: None is
\* returned and gen retries. A video frame: it is converted, resized and
\* encoded, released in the `finally`, and either the bytes are returned
\* ("frame") or the conversion/encoding raised ("error"): gen has no handler,
\* so the exception ends the generator. The handle lock is released on every
\* path.
CaptureOutcomes == {"none", "frame", "error"}

\* A plausible slip: a receiver that hands out queued frames in any order.
FrameTimestamps_Unordered(h) == 0 .. srcTs

\* The frames a capture on h can return: the receiver hands out the frames
\* of its source in the order they were sent, so the next one is no older
\* than the last one it handed out and no newer than the latest one sent.
FrameTimestamps(h) == hTs[h] .. srcTs

\* What a returning capture does to the stream: no frame changes nothing; a
\* frame advances the receiver, and reaches the reader's stream unless its
\* conversion or encoding raised.
CaptureDelivers(r, outcome) ==
    IF outcome = "none"
       THEN UNCHANGED streamVars
       ELSE \E ts \in FrameTimestamps(snap[r]) :
              /\ hTs' = [hTs EXCEPT ![snap[r]] = ts]
              /\ lastTs' = IF outcome = "frame" THEN [lastTs EXCEPT ![r] = ts] ELSE lastTs
              /\ UNCHANGED srcTs

\* A plausible slip: the handle lock taken and released by hand, with the
\* release missing on the path where conversion or encoding raises.
RdCaptureReturn_LeakLockOnError(r, outcome) ==
    /\ pcR[r] = "capture"
    /\ hlock' = IF outcome = "error" THEN hlock ELSE [hlock EXCEPT ![snap[r]] = NoOwner]
    /\ CASE outcome = "none" -> RdReset(r, "top")
         [] outcome = "frame" -> RdReset(r, "yield")
         [] outcome = "error" -> RdReset(r, "dead")
    /\ CaptureDelivers(r, outcome)
    /\ UNCHANGED <<chanVars, setVars, hstate, hname, nh, selVars, updVars, callVars, dispVars>>

RdCaptureReturn(r, outcome) ==
    /\ pcR[r] = "capture"
    /\ hlock' = [hlock EXCEPT ![snap[r]] = NoOwner]
    /\ CASE outcome = "none" -> RdReset(r, "top")
         [] outcome = "frame" -> RdReset(r, "yield")
         [] outcome = "error" -> RdReset(r, "dead")
    /\ CaptureDelivers(r, outcome)
    /\ UNCHANGED <<chanVars, setVars, hstate, hname, nh, selVars, updVars, callVars, dispVars>>

\* yield: the chunk is handed to the response and the loop goes on.
RdResume(r) ==
    /\ pcR[r] = "yield"
    /\ RdReset(r, "top")
    /\ UNCHANGED <<chanVars, setVars, handleVars, selVars, updVars, callVars, dispVars, streamVars>>

\* The client disconnected: the generator is not resumed after its yield,
\* and its stream is over.
RdDisconnect(r) ==
    /\ pcR[r] = "yield"
    /\ RdReset(r, "off")
    /\ lastTs' = [lastTs EXCEPT ![r] = 0]
    /\ UNCHANGED <<chanVars, setVars, handleVars, selVars, updVars, callVars, dispVars, srcTs, hTs>>

ReaderStep(r) ==
    \/ RdConnect(r)
    \/ RdLock(r)
    \/ RdSnapshot(r)
    \/ RdSetLock(r)
    \/ RdSetSnapshot(r)
    \/ RdEnterJpeg(r)
    \/ \E o \in CaptureOutcomes : RdCaptureReturn(r, o)
    \/ RdResume(r)
    \/ RdDisconnect(r)

(* ------------------- select_source (app.py 307-336) -------------------- *)
\* A select_source call that has not constructed its receiver yet; the calls
\* in progress are bounded so that each finds a free object identity.
SelPending == {s \in Selectors : pcS[s] \in {"save", "record", "lock", "close", "construct"}}

\* name = payload.get("name"); a missing or non-string name: HTTP 400, which
\* goes to the client and leaves the application as it was.
SelBegin(s, name) ==
    /\ pcS[s] = "idle"
    /\ IF name = NoName
          THEN UNCHANGED <<pcS, sname, resS>>
          ELSE /\ nh + Cardinality(SelPending) < MaxHandles
               /\ pcS' = [pcS EXCEPT ![s] = "save"]
               /\ sname' = [sname EXCEPT ![s] = name]
               /\ resS' = [resS EXCEPT ![s] = "none"]
    /\ UNCHANGED <<chanVars, setVars, handleVars, readerVars, newH, updVars, callVars, dispVars>>

\* _save_config_fields({"selected_source": name}): the file is replaced, or the
\* write fails, which is logged and swallowed (app.py 215-216).
SelSave(s, written) ==
    /\ pcS[s] = "save"
    /\ cfgSelected' = IF written THEN sname[s] ELSE cfgSelected
    /\ pcS' = [pcS EXCEPT ![s] = "record"]
    /\ UNCHANGED <<receiver, receiver_lock, selected_source_name, setVars, handleVars,
                   readerVars, sname, newH, resS, updVars, callVars, dispVars>>

\* selected_source_name = name
SelRecord(s) ==
    /\ pcS[s] = "record"
    /\ selected_source_name' = sname[s]
    /\ pcS' = [pcS EXCEPT ![s] = "lock"]
    /\ UNCHANGED <<receiver, receiver_lock, cfgSelected, setVars, handleVars,
                   readerVars, sname, newH, resS, updVars, callVars, dispVars>>

\* with receiver_lock:  (acquire); `if receiver is not None:`
SelLock(s) ==
    /\ pcS[s] = "lock"
    /\ receiver_lock = NoOwner
    /\ receiver_lock' = s
    /\ pcS' = [pcS EXCEPT ![s] = IF receiver # None THEN "close" ELSE "construct"]
    /\ UNCHANGED <<receiver, selected_source_name, cfgSelected, setVars, handleVars,
                   readerVars, sname, newH, resS, updVars, callVars, dispVars>>

\* A plausible slip: the old receiver is dropped without being closed.
SelClose_NoClose(s) ==
    /\ pcS[s] = "close"
    /\ receiver' = None
    /\ pcS' = [pcS EXCEPT ![s] = "construct"]
    /\ UNCHANGED <<receiver_lock, selected_source_name, cfgSelected, setVars, handleVars,
                   readerVars, sname, newH, resS, updVars, callVars, dispVars>>

\* receiver.close(), which takes the handle's own lock, then receiver = None
SelClose(s) ==
    /\ pcS[s] = "close"
    /\ HandleLockFree(receiver)
    /\ hstate' = CloseHandle(receiver)
    /\ receiver' = None
    /\ pcS' = [pcS EXCEPT ![s] = "construct"]
    /\ UNCHANGED <<receiver_lock, selected_source_name, cfgSelected, setVars, hname, hlock, nh,
                   readerVars, sname, newH, resS, updVars, callVars, dispVars>>

\* A plausible slip: the object is bound to `receiver` before its constructor
\* has finished (two-phase construction).
SelConstructBegin_PublishEarly(s) ==
    /\ pcS[s] = "construct"
    /\ nh' = nh + 1
    /\ newH' = [newH EXCEPT ![s] = nh + 1]
    /\ hstate' = [hstate EXCEPT ![nh + 1] = "constructing"]
    /\ hname' = [hname EXCEPT ![nh + 1] = sname[s]]
    /\ receiver' = nh + 1
    /\ pcS' = [pcS EXCEPT ![s] = "constructing"]
    /\ UNCHANGED <<receiver_lock, selected_source_name, cfgSelected, setVars, hlock,
                   readerVars, sname, resS, updVars, callVars, dispVars>>

\* NDIReceiver(source_name=name) starts: the object exists (its _closed and
\* _lock are set) and looks for its source; it is not bound to `receiver`.
SelConstructBegin(s) ==
    /\ pcS[s] = "construct"
    /\ nh' = nh + 1
    /\ newH' = [newH EXCEPT ![s] = nh + 1]
    /\ hstate' = [hstate EXCEPT ![nh + 1] = "constructing"]
    /\ hname' = [hname EXCEPT ![nh + 1] = sname[s]]
    /\ pcS' = [pcS EXCEPT ![s] = "constructing"]
    /\ UNCHANGED <<chanVars, setVars, hlock, readerVars, sname, resS, updVars, callVars, dispVars>>

\* A plausible slip: the `except` answers like the success path, without the
\* "pending" mark.
SelConstructEnd_NoPendingMark(s, outcome) ==
    /\ pcS[s] = "constructing"
    /\ IF outcome = "ok"
          THEN /\ hstate' = [hstate EXCEPT ![newH[s]] = "live"]
               /\ receiver' = newH[s]
          ELSE /\ hstate' = [hstate EXCEPT ![newH[s]] = "failed"]
               /\ UNCHANGED receiver
    /\ resS' = [resS EXCEPT ![s] = "ok"]
    /\ receiver_lock' = NoOwner
    /\ newH' = [newH EXCEPT ![s] = None]
    /\ sname' = [sname EXCEPT ![s] = NoName]
    /\ pcS' = [pcS EXCEPT ![s] = "idle"]
    /\ UNCHANGED <<selected_source_name, cfgSelected, setVars, hname, hlock, nh,
                   readerVars, updVars, callVars, dispVars>>

\* The constructor returns ("ok": receiver = the new object, lock released,
\* response {"ok": True, "selected": ...}, written "ok") or raises NDIError
\* ("notfound", "createfail": the lock is released by the `with`, the handler
\* logs and answers {"ok": True, ..., "pending": True}, written "ok_pending").
ConnectOutcomes == {"ok", "notfound", "createfail"}

SelConstructEnd(s, outcome) ==
    /\ pcS[s] = "constructing"
    /\ IF outcome = "ok"
          THEN /\ hstate' = [hstate EXCEPT ![newH[s]] = "live"]
               /\ receiver' = newH[s]
               /\ resS' = [resS EXCEPT ![s] = "ok"]
          ELSE /\ hstate' = [hstate EXCEPT ![newH[s]] = "failed"]
               /\ UNCHANGED receiver
               /\ resS' = [resS EXCEPT ![s] = "ok_pending"]
    /\ receiver_lock' = NoOwner
    /\ newH' = [newH EXCEPT ![s] = None]
    /\ sname' = [sname EXCEPT ![s] = NoName]
    /\ pcS' = [pcS EXCEPT ![s] = "idle"]
    /\ UNCHANGED <<selected_source_name, cfgSelected, setVars, hname, hlock, nh,
                   readerVars, updVars, callVars, dispVars>>

SelectorStep(s) ==
    \/ \E name \in Names \cup {NoName} : SelBegin(s, name)
    \/ \E written \in BOOLEAN : SelSave(s, written)
    \/ SelRecord(s)
    \/ SelLock(s)
    \/ SelClose(s)
    \/ SelConstructBegin(s)
    \/ \E o \in ConnectOutcomes : SelConstructEnd(s, o)

(* ------------------ update_settings (app.py 348-387) ------------------- *)
\* int(payload.get(key, 0) or 0) for a field int() accepts
IntOrZero(f) == IF f.t = "int" THEN f.v ELSE 0

\* A plausible slip: only a zero width with a non-zero height is rejected.
SizeMismatch_OneSided(w, h) == (w = 0) /\ (h # 0)

\* if (w == 0) != (h == 0): HTTP 400
SizeMismatch(w, h) == (w = 0) # (h = 0)

\* payload is None, or "jpegQuality" is present and int() raises: HTTP 400,
\* which goes to the client and leaves the application as it was. Otherwise q
\* is clamped and waits for settings_lock.
UpdBegin(u, p) ==
    /\ pcU[u] = "idle"
    /\ IF p = NoPayload \/ p.q = NonInt
          THEN UNCHANGED <<pcU, uq, pw, ph, resU>>
          ELSE /\ resU' = [resU EXCEPT ![u] = "none"]
               /\ pw' = [pw EXCEPT ![u] = p.w]
               /\ ph' = [ph EXCEPT ![u] = p.h]
               /\ IF p.q = Absent
                     THEN /\ pcU' = [pcU EXCEPT ![u] = "size"]
                          /\ UNCHANGED uq
                     ELSE /\ pcU' = [pcU EXCEPT ![u] = "quality"]
                          /\ uq' = [uq EXCEPT ![u] = ClampQuality(p.q.v)]
    /\ UNCHANGED <<chanVars, setVars, handleVars, readerVars, selVars, callVars, dispVars>>

\* with settings_lock: jpeg_quality = q
UpdWriteQuality(u) ==
    /\ pcU[u] = "quality"
    /\ settings_lock = NoOwner
    /\ jpeg_quality' = uq[u]
    /\ uq' = [uq EXCEPT ![u] = 0]
    /\ pcU' = [pcU EXCEPT ![u] = "size"]
    /\ UNCHANGED <<chanVars, settings_lock, output_width, output_height, handleVars,
                   readerVars, selVars, pw, ph, resU, callVars, dispVars>>

\* The size part: skipped when neither key is present; int() raising or a
\* mismatched pair: 400; otherwise clamp and, with settings_lock, publish both.
UpdSize(u) ==
    /\ pcU[u] = "size"
    /\ pw' = [pw EXCEPT ![u] = Absent]
    /\ ph' = [ph EXCEPT ![u] = Absent]
    /\ IF pw[u] = Absent /\ ph[u] = Absent
          THEN /\ pcU' = [pcU EXCEPT ![u] = "return"]
               /\ UNCHANGED <<resU, output_width, output_height>>
          ELSE IF \/ pw[u] = NonInt
                  \/ ph[u] = NonInt
                  \/ SizeMismatch(IntOrZero(pw[u]), IntOrZero(ph[u]))
          THEN /\ pcU' = [pcU EXCEPT ![u] = "idle"]
               /\ resU' = [resU EXCEPT ![u] = "http400"]
               /\ UNCHANGED <<output_width, output_height>>
          ELSE /\ settings_lock = NoOwner
               /\ output_width' = IF IntOrZero(pw[u]) # 0
                                     THEN ClampWidth(IntOrZero(pw[u])) ELSE 0
               /\ output_height' = IF IntOrZero(pw[u]) # 0
                                      THEN ClampHeight(IntOrZero(ph[u])) ELSE IntOrZero(ph[u])
               /\ pcU' = [pcU EXCEPT ![u] = "return"]
               /\ UNCHANGED resU
    /\ UNCHANGED <<chanVars, settings_lock, jpeg_quality, handleVars,
                   readerVars, selVars, uq, callVars, dispVars>>

\* The log line, then return get_settings(): the three values are read with
\* settings_lock held.
UpdReturn(u) ==
    /\ pcU[u] = "return"
    /\ settings_lock = NoOwner
    /\ resU' = [resU EXCEPT ![u] = "ok"]
    /\ pcU' = [pcU EXCEPT ![u] = "idle"]
    /\ UNCHANGED <<chanVars, setVars, handleVars, readerVars, selVars, uq, pw, ph,
                   callVars, dispVars>>

\* The payloads tried. Quality: absent, not an integer, below [20, 95].
\* Width: absent, negative (below the clamp range). Height: zero, above the
\* clamp range.
QualityInputs == {Absent, NonInt, IntField(5)}
WidthInputs == {Absent, IntField(-7)}
HeightInputs == {IntField(0), IntField(3000)}
Payloads ==
    {NoPayload} \cup
    {[t |-> "dict", q |-> q, w |-> w, h |-> h] :
        q \in QualityInputs, w \in WidthInputs, h \in HeightInputs}

UpdaterStep(u) ==
    \/ \E p \in Payloads : UpdBegin(u, p)
    \/ UpdWriteQuality(u)
    \/ UpdSize(u)
    \/ UpdReturn(u)

(* ------- the settings channel: update_settings against readers --------- *)
\* The application after one successful select_source("A"): the readers have
\* a source to capture from.
InitOneReceiver(st) ==
    /\ receiver = IF st = "live" THEN 1 ELSE None
    /\ receiver_lock = NoOwner
    /\ selected_source_name = "A"
    /\ cfgSelected = "A"
    /\ settings_lock = NoOwner
    /\ jpeg_quality = DefaultQuality
    /\ output_width = 0
    /\ output_height = 0
    /\ hstate = [h \in Handles |-> IF h = 1 THEN st ELSE "unborn"]
    /\ hname = [h \in Handles |-> IF h = 1 THEN "A" ELSE NoName]
    /\ hlock = [h \in Handles |-> NoOwner]
    /\ nh = 1
    /\ pcR = [r \in Readers |-> "off"]
    /\ snap = [r \in Readers |-> None]
    /\ sq = [r \in Readers |-> 0]
    /\ sw = [r \in Readers |-> 0]
    /\ sh = [r \in Readers |-> 0]
    /\ InitStream
    /\ pcS = [s \in Selectors |-> "idle"]
    /\ sname = [s \in Selectors |-> NoName]
    /\ newH = [s \in Selectors |-> None]
    /\ resS = [s \in Selectors |-> "none"]
    /\ pcU = [u \in Updaters |-> "idle"]
    /\ uq = [u \in Updaters |-> 0]
    /\ pw = [u \in Updaters |-> Absent]
    /\ ph = [u \in Updaters |-> Absent]
    /\ resU = [u \in Updaters |-> "none"]
    /\ InitIdle

InitSelected == InitOneReceiver("live")

NextSettings ==
    \/ \E r \in SwapReaders : ReaderStep(r)
    \/ \E u \in Updaters : UpdaterStep(u)

SpecSettings == InitSelected /\ [][NextSettings]_vars

(* ------- N readers streaming from one source that keeps sending ------- *)
\* The source sends its next frame: timestamps never go back.
SrcTick ==
    /\ srcTs < MaxTs
    /\ srcTs' = srcTs + 1
    /\ UNCHANGED <<chanVars, setVars, handleVars, pcR, snap, sq, sw, sh, hTs, lastTs,
                   selVars, updVars, callVars, dispVars>>

NextStream ==
    \/ \E r \in Readers : ReaderStep(r)
    \/ SrcTick

SpecStream == InitSelected /\ [][NextStream]_vars

(* ---------- direct callers of one NDIReceiver (ndi.py 379-482) --------- *)
\* The receiver the callers share: the first one constructed.
SharedHandle == 1

\* A thread calls get_jpeg_frame, get_rgb_frame or close on the receiver.
CallStart(c, method) ==
    /\ pcC[c] = "idle"
    /\ pcC' = [pcC EXCEPT ![c] = method]
    /\ UNCHANGED <<chanVars, setVars, handleVars, readerVars, selVars, updVars, nCloses, nDestroyed,
                   convVars, dispVars>>

\* get_jpeg_frame: `with self._lock:`; `if self._closed: return None`;
\* otherwise NDIlib_recv_capture_v2 is called with the lock held.
CallJpegEnter(c) ==
    /\ pcC[c] = "jpeg"
    /\ HandleLockFree(SharedHandle)
    /\ IF hstate[SharedHandle] = "closed"
          THEN /\ pcC' = [pcC EXCEPT ![c] = "idle"]
               /\ UNCHANGED hlock
          ELSE /\ pcC' = [pcC EXCEPT ![c] = "jpegCapture"]
               /\ hlock' = [hlock EXCEPT ![SharedHandle] = c]
    /\ UNCHANGED <<chanVars, setVars, hstate, hname, nh, readerVars, selVars, updVars, nCloses, nDestroyed,
                   convVars, dispVars>>

\* get_rgb_frame: the same entry (ndi.py 437-450).
CallRgbEnter(c) ==
    /\ pcC[c] = "rgb"
    /\ HandleLockFree(SharedHandle)
    /\ IF hstate[SharedHandle] = "closed"
          THEN /\ pcC' = [pcC EXCEPT ![c] = "idle"]
               /\ UNCHANGED hlock
          ELSE /\ pcC' = [pcC EXCEPT ![c] = "rgbCapture"]
               /\ hlock' = [hlock EXCEPT ![SharedHandle] = c]
    /\ UNCHANGED <<chanVars, setVars, hstate, hname, nh, readerVars, selVars, updVars, nCloses, nDestroyed,
                   convVars, dispVars>>

\* The capture returns (no frame, a frame, or the conversion raised); the
\* frame is freed and the lock released on every path.
CallCaptureReturn(c) ==
    /\ pcC[c] \in {"jpegCapture", "rgbCapture"}
    /\ hlock' = [hlock EXCEPT ![SharedHandle] = NoOwner]
    /\ pcC' = [pcC EXCEPT ![c] = "idle"]
    /\ UNCHANGED <<chanVars, setVars, hstate, hname, nh, readerVars, selVars, updVars, nCloses, nDestroyed,
                   convVars, dispVars>>

\* close: `with self._lock:` and the body of close. __del__ is one more such
\* call (ndi.py 484-485).
CallCloseRun(c) ==
    /\ pcC[c] = "close"
    /\ HandleLockFree(SharedHandle)
    /\ hstate' = CloseHandle(SharedHandle)
    /\ nCloses' = Min(2, nCloses + 1)
    /\ nDestroyed' = IF CloseDestroys(SharedHandle) THEN Min(2, nDestroyed + 1) ELSE nDestroyed
    /\ pcC' = [pcC EXCEPT ![c] = "idle"]
    /\ UNCHANGED <<chanVars, setVars, hname, hlock, nh, readerVars, selVars, updVars,
                   convVars, dispVars>>

CallerStep(c) ==
    \/ \E m \in {"jpeg", "rgb", "close"} : CallStart(c, m)
    \/ CallJpegEnter(c)
    \/ CallRgbEnter(c)
    \/ CallCaptureReturn(c)
    \/ CallCloseRun(c)

\* One connected receiver and its callers.
NextRecv == \E c \in Callers : CallerStep(c)

SpecRecv == InitSelected /\ [][NextRecv]_vars

\* One NDIReceiver object and the close calls made on it, concurrently with
\* its other callers: the object is connected, or its constructor raised
\* before a native receiver existed (no finder, source not found, or
\* NDIlib_recv_create_v3 returned null; ndi.py 290-318), and then the only
\* call it ever gets is close, from __del__.
InitClose == \E st \in {"live", "failed"} : InitOneReceiver(st)

NextClose ==
    \E c \in Callers :
        IF hstate[SharedHandle] = "failed"
           THEN CallStart(c, "close") \/ CallCloseRun(c)
           ELSE CallerStep(c)

SpecClose == InitClose /\ [][NextClose]_vars

(* ------------- NDIDisplay, the direct sink (display.py) ---------------- *)
\* connect_to_source (182-196): close and forget the old receiver; with no
\* name selected, stop; otherwise construct, and on any exception keep None.
\* The display is one thread and its receiver is its own: the whole call is
\* one step.
ConnectToSource(name, outcome) ==
    /\ hstate' = [h \in Handles |->
                    IF h = dispReceiver THEN CloseHandle(h)[h]
                    ELSE IF name # NoName /\ h = nh + 1
                         THEN (IF outcome = "ok" THEN "live" ELSE "failed")
                    ELSE hstate[h]]
    /\ IF name = NoName
          THEN /\ dispReceiver' = None
               /\ UNCHANGED <<hname, nh>>
          ELSE /\ nh + Cardinality(SelPending) < MaxHandles
               /\ nh' = nh + 1
               /\ hname' = [hname EXCEPT ![nh + 1] = name]
               /\ dispReceiver' = IF outcome = "ok" THEN nh + 1 ELSE None

\* check_config_update (150-180): the poll reads selected_source from the
\* config file; a value different from the stored one is stored and connected.
DispPoll(outcome) ==
    /\ cfgSelected # dispSelected
    /\ dispSelected' = cfgSelected
    /\ ConnectToSource(cfgSelected, outcome)
    /\ UNCHANGED <<chanVars, setVars, hlock, readerVars, selVars, updVars, callVars,
                   cfgVars, loopVars>>

DisplayStep == \E o \in ConnectOutcomes : DispPoll(o)

(* ------- both sinks: select_source calls and the display's poll -------- *)
NextSinks ==
    \/ \E s \in Selectors : SelectorStep(s)
    \/ DisplayStep

SpecSinks == Init /\ [][NextSinks]_vars

(* ------------ NDIDisplay: startup and the render loop ------------------ *)
\* The pieces of format_template (115-131) that bear on the source: a template
\* is a list of pieces, a piece is literal text or the token <source>.
SourceToken == "<source>"

\* "source": self.selected_source or ""
SourceText(sel) == IF sel = NoName THEN "" ELSE sel

RECURSIVE Concat(_)
\* str.replace over the pieces, and the text that results: empty pieces vanish.
Concat(pieces) ==
    IF pieces = <<>> THEN <<>>
    ELSE IF Head(pieces) = "" THEN Concat(Tail(pieces))
    ELSE <<Head(pieces)>> \o Concat(Tail(pieces))

format_template(template, sel) ==
    Concat([i \in DOMAIN template |->
              IF template[i] = SourceToken THEN SourceText(sel) ELSE template[i]])

\* self.format_template(self.no_connection_message) or "No NDI Source"
FallbackText(template, sel) ==
    IF format_template(template, sel) = <<>> THEN DefaultMessage
    ELSE format_template(template, sel)

\* The messages a configuration can hold.
Templates == {DefaultMessage, <<"No signal from ", SourceToken>>, <<SourceToken>>}

\* What discovery returns to auto_connect: nothing, one source, two sources.
Discoveries == {<<>>, <<"A">>, <<"B", "A">>}

\* connect_to_source when a name is stored; with none it only forgets the
\* (absent) receiver.
DispConnect(name, outcome) ==
    IF name = NoName
       THEN /\ hstate' = CloseHandle(dispReceiver)
            /\ dispReceiver' = None
            /\ UNCHANGED <<hname, nh>>
       ELSE ConnectToSource(name, outcome)

\* config.get('no_connection_message', self.no_connection_message)
ConfigMessage(own) == IF cfgMessage = NoMessage THEN own ELSE cfgMessage

\* History of the fade: hdmi_blank has taken another value. Blanking that
\* begins at alpha 0 starts a run whose steps are added up.
BlankTaken(blank) ==
    /\ dPending' = TRUE
    /\ fadeSum' = IF blank /\ blank_alpha = 0 THEN 0 ELSE -1
    /\ fullEvents' = 0

\* load_config (133-148), called by __init__: a readable config gives the
\* stored source, blank flag and message, and a stored source is connected at
\* once; a missing file is skipped and an unreadable one raises inside the
\* try, which prints and goes on.
DispLoadConfig(outcome) ==
    /\ pcD = "init"
    /\ pcD' = "start"
    /\ IF cfgState = "ok"
          THEN /\ dispSelected' = cfgSelected
               /\ dispMessage' = ConfigMessage(dispMessage)
               /\ dispBlank' = cfgBlank
               /\ IF cfgBlank # dispBlank
                     THEN BlankTaken(cfgBlank)
                     ELSE UNCHANGED fadeObs
               /\ IF cfgSelected # NoName
                     THEN ConnectToSource(cfgSelected, outcome)
                     ELSE UNCHANGED <<hstate, hname, nh, dispReceiver>>
          ELSE UNCHANGED <<dispSelected, dispMessage, dispBlank, hstate, hname, nh,
                           dispReceiver, fadeObs>>
    /\ UNCHANGED <<chanVars, setVars, hlock, readerVars, selVars, updVars, callVars, cfgVars,
                   blank_alpha, fadeFull, fadeClear, dBranch, dText, dFaded, dFlipped,
                   scaleVars>>

\* run (326-334), before the loop: connect the stored source, or auto_connect
\* (198-210) to the first source discovery returns.
DispStart(found, outcome) ==
    /\ pcD = "start"
    /\ pcD' = "poll"
    /\ IF dispSelected # NoName
          THEN /\ ConnectToSource(dispSelected, outcome)
               /\ UNCHANGED dispSelected
          ELSE IF found # <<>>
                  THEN /\ dispSelected' = found[1]
                       /\ ConnectToSource(found[1], outcome)
                  ELSE UNCHANGED <<dispSelected, hstate, hname, nh, dispReceiver>>
    /\ UNCHANGED <<chanVars, setVars, hlock, readerVars, selVars, updVars, callVars, cfgVars,
                   dispBlank, blank_alpha, fadeFull, fadeClear, dispMessage, dBranch, dText,
                   dFaded, dFlipped, fadeObs,
                   scaleVars>>

\* The loop test finds self.running false (QUIT, ESC, q or a signal): cleanup
\* (362-368) closes the receiver and the display stops.
DispQuit ==
    /\ pcD = "poll"
    /\ pcD' = "stopped"
    /\ hstate' = CloseHandle(dispReceiver)
    /\ UNCHANGED <<chanVars, setVars, hname, hlock, nh, readerVars, selVars, updVars, callVars,
                   dispSelected, dispReceiver, cfgVars, dispBlank, blank_alpha, fadeFull,
                   fadeClear, dispMessage, dBranch, dText, dFaded, dFlipped, fadeObs,
                   scaleVars>>

\* A plausible slip: a file that cannot be read is taken as an empty config,
\* which names no source and is not blanked.
DispCheckConfig_EmptyOnDamage(due, outcome) ==
    /\ pcD = "poll"
    /\ pcD' = "render"
    /\ IF due
          THEN /\ dispMessage' = IF cfgState = "ok" THEN ConfigMessage(dispMessage)
                                  ELSE dispMessage
               /\ dispBlank' = (cfgState = "ok" /\ cfgBlank)
               /\ IF dispBlank' # dispBlank
                     THEN fadeFull' = FALSE /\ fadeClear' = FALSE /\ BlankTaken(dispBlank')
                     ELSE UNCHANGED <<fadeFull, fadeClear, fadeObs>>
               /\ dispSelected' = IF cfgState = "ok" THEN cfgSelected ELSE NoName
               /\ IF dispSelected' # dispSelected
                     THEN DispConnect(dispSelected', outcome)
                     ELSE UNCHANGED <<hstate, hname, nh, dispReceiver>>
          ELSE UNCHANGED <<dispMessage, dispBlank, fadeFull, fadeClear, dispSelected, hstate,
                           hname, nh, dispReceiver, fadeObs>>
    /\ UNCHANGED <<chanVars, setVars, hlock, readerVars, selVars, updVars, callVars, cfgVars,
                   blank_alpha, dBranch, dText, dFaded, dFlipped, scaleVars>>

\* A plausible slip: a poll that also reconnects whenever the sink holds no
\* receiver.
DispCheckConfig_RetryWhenNull(due, outcome) ==
    /\ pcD = "poll"
    /\ pcD' = "render"
    /\ IF due /\ cfgState = "ok"
          THEN /\ dispMessage' = ConfigMessage(dispMessage)
               /\ IF cfgBlank # dispBlank
                     THEN /\ dispBlank' = cfgBlank
                          /\ fadeFull' = FALSE
                          /\ fadeClear' = FALSE
                          /\ BlankTaken(cfgBlank)
                     ELSE UNCHANGED <<dispBlank, fadeFull, fadeClear, fadeObs>>
               /\ IF cfgSelected # dispSelected \/ dispReceiver = None
                     THEN /\ dispSelected' = cfgSelected
                          /\ DispConnect(cfgSelected, outcome)
                     ELSE UNCHANGED <<dispSelected, hstate, hname, nh, dispReceiver>>
          ELSE UNCHANGED <<dispMessage, dispBlank, fadeFull, fadeClear, dispSelected, hstate,
                           hname, nh, dispReceiver, fadeObs>>
    /\ UNCHANGED <<chanVars, setVars, hlock, readerVars, selVars, updVars, callVars, cfgVars,
                   blank_alpha, dBranch, dText, dFaded, dFlipped, scaleVars>>

\* check_config_update (150-180). Not due yet: return. A missing file is
\* skipped and an unreadable one raises inside the try, which passes: nothing
\* is changed. A readable one: a changed blank flag is taken and resets both
\* one-shot flags; a changed source is stored and connected.
DispCheckConfig(due, outcome) ==
    /\ pcD = "poll"
    /\ pcD' = "render"
    /\ IF due /\ cfgState = "ok"
          THEN /\ dispMessage' = ConfigMessage(dispMessage)
               /\ IF cfgBlank # dispBlank
                     THEN /\ dispBlank' = cfgBlank
                          /\ fadeFull' = FALSE
                          /\ fadeClear' = FALSE
                          /\ BlankTaken(cfgBlank)
                     ELSE UNCHANGED <<dispBlank, fadeFull, fadeClear, fadeObs>>
               /\ IF cfgSelected # dispSelected
                     THEN /\ dispSelected' = cfgSelected
                          /\ DispConnect(cfgSelected, outcome)
                     ELSE UNCHANGED <<dispSelected, hstate, hname, nh, dispReceiver>>
          ELSE UNCHANGED <<dispMessage, dispBlank, fadeFull, fadeClear, dispSelected, hstate,
                           hname, nh, dispReceiver, fadeObs>>
    /\ UNCHANGED <<chanVars, setVars, hlock, readerVars, selVars, updVars, callVars, cfgVars,
                   blank_alpha, dBranch, dText, dFaded, dFlipped, scaleVars>>

\* render_frame, first part (222-272): black when fully blanked; the fallback
\* message when there is no receiver; otherwise one get_rgb_frame call, whose
\* None is "no frame", whose frame is scaled and blitted, and whose exception
\* (capture, conversion, scaling) is caught, printed and followed by a sleep.
\* The receiver is the display's own, so its lock is taken and released
\* within the step; a closed receiver answers None.
\* A plausible slip: get_rgb_frame called outside the try, so its exception
\* leaves render_frame and run.
DispRender_Uncaught(outcome) ==
    /\ pcD = "render"
    /\ dFaded' = FALSE
    /\ dFlipped' = FALSE
    /\ dText' = <<>>
    /\ dBranch' = IF dispReceiver = None THEN "fallback"
                  ELSE IF outcome = "error" THEN "error" ELSE "noframe"
    /\ pcD' = IF dBranch' = "error" THEN "stopped" ELSE "fade"
    /\ UNCHANGED <<chanVars, setVars, handleVars, readerVars, selVars, updVars, callVars,
                   dispSelected, dispReceiver, cfgVars, dispBlank, blank_alpha, fadeFull,
                   fadeClear, dispMessage, fadeObs, scaleVars>>

(* ---- the scaled size of a frame (render_frame, 245-252) --------------- *)
\* init_display (75-76) opens a 1920x1080 surface.
DisplayWidth == 1920
DisplayHeight == 1080

\* scale = min(self.width / fw, self.height / fh) and int(fw * scale) are
\* computed in binary floating point (Python floats are IEEE doubles, 53
\* significant bits, round to nearest, ties to even). A quotient num / den
\* is stored as m / 2^k with m the nearest 53-bit integer; the operators
\* below follow that arithmetic on the remainders, which stay small.
\* floor(log2(n / d)) for positive n and d.
RECURSIVE FloorLog2(_, _)
FloorLog2(n, d) ==
    IF n >= 2 * d THEN 1 + FloorLog2(n, 2 * d)
    ELSE IF n < d THEN FloorLog2(2 * n, d) - 1
    ELSE 0

\* (num * 2^k) mod den and the lowest bit of the quotient, by k doublings
\* of the remainder r (bit: the lowest bit of the quotient so far).
RECURSIVE RemShift(_, _, _, _)
RemShift(r, bit, den, k) ==
    IF k = 0 THEN [r |-> r, bit |-> bit]
    ELSE RemShift((2 * r) % den, IF 2 * r >= den THEN 1 ELSE 0, den, k - 1)

\* int(dim * scale) for scale = num / den as a double. Where the exact
\* product is no integer the rounding errors (below 2^-40 here) cannot move
\* it across one, and int() truncates. Where it is an integer N and the
\* quotient does not fit in 53 bits (r # 0), the stored scale is a little off:
\* rounded up, the product rounds back to N; rounded down by r/(den*2^k), the
\* product N - dim*r/(den*2^k) rounds back to N only if it is within half a
\* unit in the last place of N, and otherwise int() gives N - 1.
ScaledDim(dim, num, den) ==
    LET N == (dim * num) \div den
        eq == FloorLog2(num, den)
        q == RemShift(num % den, (num \div den) % 2, den, 52 - eq)
        roundedUp == 2 * q.r > den \/ (2 * q.r = den /\ q.bit = 1)
        e1 == IF \E i \in 0 .. 30 : N = 2^i THEN FloorLog2(N, 1) - 1 ELSE FloorLog2(N, 1)
        lhs == IF e1 >= eq THEN 2 * dim * q.r ELSE 2 * dim * q.r * 2^(eq - e1)
        rhs == IF e1 >= eq THEN den * 2^(e1 - eq) ELSE den
    IN  IF (dim * num) % den # 0 \/ q.r = 0 \/ roundedUp THEN N
        ELSE IF lhs > rhs THEN N - 1 ELSE N

\* The pair (int(fw * scale), int(fh * scale)) of line 252, scale being the
\* smaller of the two quotients (rounding keeps their order).
ScaledSize(size) ==
    IF DisplayWidth * size[2] =< DisplayHeight * size[1]
       THEN <<ScaledDim(size[1], DisplayWidth, size[1]),
              ScaledDim(size[2], DisplayWidth, size[1])>>
       ELSE <<ScaledDim(size[1], DisplayHeight, size[2]),
              ScaledDim(size[2], DisplayHeight, size[2])>>

\* render_frame, line 225: black is painted and the receiver left alone.
\* A plausible slip: a strict comparison, which alpha, clamped to 255, never
\* passes.
\* A plausible slip: the blank flag left out of the test, alpha alone
\* deciding.
FullyBlanked_AlphaOnly == blank_alpha >= 255

FullyBlanked_Strict == dispBlank /\ blank_alpha > 255

FullyBlanked == dispBlank /\ blank_alpha >= 255

\* A plausible slip: the cache is filled once and never looked at again.
CacheStale_OnlyWhenEmpty(size) == cachedFrame = NoSize

\* A plausible slip: no cache, the scaled size is computed for every frame.
CacheStale_Always(size) == size \in srcSizes

\* Line 249: the cached scaled size is of another frame size.
CacheStale(size) == cachedFrame # size

\* Lines 245-266 for a frame of the given size: the scaled size is computed
\* when the cache is of another size, and the frame is blitted at that size,
\* centred.
ScaleAndBlit(size) ==
    /\ dSize' = size
    /\ IF CacheStale(size)
          THEN /\ cachedFrame' = size
               /\ cachedScaled' = ScaledSize(size)
               /\ dRecomputed' = TRUE
               /\ nRecompute' = Min(MaxRecomputes, nRecompute + 1)
          ELSE /\ UNCHANGED <<cachedFrame, cachedScaled, nRecompute>>
               /\ dRecomputed' = FALSE
    /\ dBlit' = <<cachedScaled'[1], cachedScaled'[2],
                  (DisplayWidth - cachedScaled'[1]) \div 2,
                  (DisplayHeight - cachedScaled'[2]) \div 2>>
    /\ nRuns' = IF size # prevSize THEN Min(MaxRecomputes, nRuns + 1) ELSE nRuns
    /\ prevSize' = size
    /\ seenSizes' = seenSizes \cup {size}
    /\ UNCHANGED srcSizes

\* No frame is drawn in this iteration.
NoBlit ==
    /\ dSize' = NoSize
    /\ dBlit' = <<>>
    /\ dRecomputed' = FALSE
    /\ UNCHANGED <<cachedFrame, cachedScaled, srcSizes, prevSize, seenSizes, nRecompute, nRuns>>

\* A plausible slip: the fully blanked branch returns early, past the fade
\* block.
DispRender_BlackReturnsEarly(outcome) ==
    /\ pcD = "render"
    /\ pcD' = IF FullyBlanked THEN "flip" ELSE "fade"
    /\ dFaded' = FALSE
    /\ dFlipped' = FALSE
    /\ dText' = <<>>
    /\ dBranch' = IF FullyBlanked THEN "black"
                  ELSE IF dispReceiver = None THEN "fallback"
                  ELSE IF outcome = "error" THEN "error" ELSE "noframe"
    /\ NoBlit
    /\ UNCHANGED <<chanVars, setVars, handleVars, readerVars, selVars, updVars, callVars,
                   dispSelected, dispReceiver, cfgVars, dispBlank, blank_alpha, fadeFull,
                   fadeClear, dispMessage, fadeObs>>

DispRender(outcome) ==
    /\ pcD = "render"
    /\ pcD' = "fade"
    /\ dFaded' = FALSE
    /\ dFlipped' = FALSE
    /\ IF FullyBlanked
          THEN /\ dBranch' = "black"
               /\ dText' = <<>>
               /\ NoBlit
          ELSE IF dispReceiver = None
                  THEN /\ dBranch' = "fallback"
                       /\ dText' = FallbackText(dispMessage, dispSelected)
                       /\ NoBlit
                  ELSE /\ HandleLockFree(dispReceiver)
                       /\ dBranch' = IF hstate[dispReceiver] # "live" THEN "noframe"
                                     ELSE CASE outcome = "none" -> "noframe"
                                            [] outcome = "frame" -> "frame"
                                            [] outcome = "error" -> "error"
                       /\ dText' = <<>>
                       /\ IF dBranch' = "frame"
                             THEN \E size \in srcSizes : ScaleAndBlit(size)
                             ELSE NoBlit
    /\ UNCHANGED <<chanVars, setVars, handleVars, readerVars, selVars, updVars, callVars,
                   dispSelected, dispReceiver, cfgVars, dispBlank, blank_alpha, fadeFull,
                   fadeClear, dispMessage, fadeObs>>

\* The fade block of render_frame (274-306): alpha moves by step towards 255
\* when blanked and towards 0 when not, and is snapped to the end with the
\* one-shot event the first time it comes within 1 of it. step is
\* 255 * dt / 0.4 for the time dt since the last tick.
FadeSteps == {0, 100, 254}

\* History of the fade: one of the two lines "Fade complete: black" (285)
\* and "Fade cleared: video visible" (292) is printed.
FadeEvent(line) ==
    /\ dPending' = FALSE
    /\ fullEvents' = IF line = "black" THEN Min(2, fullEvents + 1) ELSE fullEvents

\* A plausible slip: the sum and the difference are not clamped to the ends
\* (min(255.0, ...) and max(0.0, ...) left out).
DispFade_Unclamped(step) ==
    /\ pcD = "fade"
    /\ pcD' = "flip"
    /\ dFaded' = TRUE
    /\ IF dispBlank
          THEN IF blank_alpha + step >= 254 /\ ~fadeFull
                  THEN /\ blank_alpha' = 255
                       /\ fadeFull' = TRUE
                       /\ fadeClear' = FALSE
                       /\ FadeEvent("black")
                  ELSE /\ blank_alpha' = blank_alpha + step
                       /\ UNCHANGED <<fadeFull, fadeClear, dPending, fullEvents>>
          ELSE IF blank_alpha - step <= 1 /\ ~fadeClear
                  THEN /\ blank_alpha' = 0
                       /\ fadeClear' = TRUE
                       /\ fadeFull' = FALSE
                       /\ FadeEvent("cleared")
                  ELSE /\ blank_alpha' = blank_alpha - step
                       /\ UNCHANGED <<fadeFull, fadeClear, dPending, fullEvents>>
    /\ fadeSum' = IF fadeSum >= 0 THEN Min(255, fadeSum + step) ELSE fadeSum
    /\ UNCHANGED <<chanVars, setVars, handleVars, readerVars, selVars, updVars, callVars,
                   dispSelected, dispReceiver, cfgVars, dispBlank, dispMessage, dBranch, dText,
                   dFlipped, scaleVars>>

\* A plausible slip: the blanking branch does not set its one-shot flag
\* (_fade_full_emitted = True left out), so the event is printed on every
\* tick at the end.
DispFade_EventRepeats(step) ==
    /\ pcD = "fade"
    /\ pcD' = "flip"
    /\ dFaded' = TRUE
    /\ IF dispBlank
          THEN IF Min(255, blank_alpha + step) >= 254 /\ ~fadeFull
                  THEN /\ blank_alpha' = 255
                       /\ fadeClear' = FALSE
                       /\ FadeEvent("black")
                       /\ UNCHANGED fadeFull
                  ELSE /\ blank_alpha' = Min(255, blank_alpha + step)
                       /\ UNCHANGED <<fadeFull, fadeClear, dPending, fullEvents>>
          ELSE IF Max(0, blank_alpha - step) <= 1 /\ ~fadeClear
                  THEN /\ blank_alpha' = 0
                       /\ fadeClear' = TRUE
                       /\ fadeFull' = FALSE
                       /\ FadeEvent("cleared")
                  ELSE /\ blank_alpha' = Max(0, blank_alpha - step)
                       /\ UNCHANGED <<fadeFull, fadeClear, dPending, fullEvents>>
    /\ fadeSum' = IF fadeSum >= 0 THEN Min(255, fadeSum + step) ELSE fadeSum
    /\ UNCHANGED <<chanVars, setVars, handleVars, readerVars, selVars, updVars, callVars,
                   dispSelected, dispReceiver, cfgVars, dispBlank, dispMessage, dBranch, dText,
                   dFlipped, scaleVars>>

\* A plausible slip: the snap to the end starts half way (at 128 and 127
\* instead of 254.0 and 1.0).
DispFade_WideSnap(step) ==
    /\ pcD = "fade"
    /\ pcD' = "flip"
    /\ dFaded' = TRUE
    /\ IF dispBlank
          THEN IF Min(255, blank_alpha + step) >= 128 /\ ~fadeFull
                  THEN /\ blank_alpha' = 255
                       /\ fadeFull' = TRUE
                       /\ fadeClear' = FALSE
                       /\ FadeEvent("black")
                  ELSE /\ blank_alpha' = Min(255, blank_alpha + step)
                       /\ UNCHANGED <<fadeFull, fadeClear, dPending, fullEvents>>
          ELSE IF Max(0, blank_alpha - step) <= 127 /\ ~fadeClear
                  THEN /\ blank_alpha' = 0
                       /\ fadeClear' = TRUE
                       /\ fadeFull' = FALSE
                       /\ FadeEvent("cleared")
                  ELSE /\ blank_alpha' = Max(0, blank_alpha - step)
                       /\ UNCHANGED <<fadeFull, fadeClear, dPending, fullEvents>>
    /\ fadeSum' = IF fadeSum >= 0 THEN Min(255, fadeSum + step) ELSE fadeSum
    /\ UNCHANGED <<chanVars, setVars, handleVars, readerVars, selVars, updVars, callVars,
                   dispSelected, dispReceiver, cfgVars, dispBlank, dispMessage, dBranch, dText,
                   dFlipped, scaleVars>>

DispFade(step) ==
    /\ pcD = "fade"
    /\ pcD' = "flip"
    /\ dFaded' = TRUE
    /\ IF dispBlank
          THEN IF Min(255, blank_alpha + step) >= 254 /\ ~fadeFull
                  THEN /\ blank_alpha' = 255
                       /\ fadeFull' = TRUE
                       /\ fadeClear' = FALSE
                       /\ FadeEvent("black")
                  ELSE /\ blank_alpha' = Min(255, blank_alpha + step)
                       /\ UNCHANGED <<fadeFull, fadeClear, dPending, fullEvents>>
          ELSE IF Max(0, blank_alpha - step) <= 1 /\ ~fadeClear
                  THEN /\ blank_alpha' = 0
                       /\ fadeClear' = TRUE
                       /\ fadeFull' = FALSE
                       /\ FadeEvent("cleared")
                  ELSE /\ blank_alpha' = Max(0, blank_alpha - step)
                       /\ UNCHANGED <<fadeFull, fadeClear, dPending, fullEvents>>
    /\ fadeSum' = IF fadeSum >= 0 THEN Min(255, fadeSum + step) ELSE fadeSum
    /\ UNCHANGED <<chanVars, setVars, handleVars, readerVars, selVars, updVars, callVars,
                   dispSelected, dispReceiver, cfgVars, dispBlank, dispMessage, dBranch, dText,
                   dFlipped, scaleVars>>

\* The FPS overlay (308-322, every exception passed over) and
\* pygame.display.flip() (324); the loop goes round.
DispFlip ==
    /\ pcD = "flip"
    /\ pcD' = "poll"
    /\ dFlipped' = TRUE
    /\ UNCHANGED <<chanVars, setVars, handleVars, readerVars, selVars, updVars, callVars,
                   dispSelected, dispReceiver, cfgVars, dispBlank, blank_alpha, fadeFull,
                   fadeClear, dispMessage, dBranch, dText, dFaded, fadeObs, scaleVars>>

DisplayLoopStep ==
    \/ \E o \in ConnectOutcomes : DispLoadConfig(o)
    \/ \E found \in Discoveries, o \in ConnectOutcomes : DispStart(found, o)
    \/ DispQuit
    \/ \E due \in BOOLEAN, o \in ConnectOutcomes : DispCheckConfig(due, o)
    \/ \E o \in CaptureOutcomes : DispRender(o)
    \/ \E step \in FadeSteps : DispFade(step)
    \/ DispFlip

(* ---- the web application, seen from the display: it rewrites the ------ *)
(* ---- config file, which can also be missing or unreadable ------------- *)
\* select_source has saved another name (app.py 317), before the display
\* was started or while it runs; each saved name costs the display one
\* receiver, so names are saved while one can be made.
CfgSetSource(name) ==
    /\ pcD \in {"init", "poll", "render", "fade", "flip"}
    /\ nh < MaxHandles
    /\ name # cfgSelected
    /\ cfgSelected' = name
    /\ UNCHANGED <<receiver, receiver_lock, selected_source_name, setVars, handleVars,
                   readerVars, selVars, updVars, callVars, dispSelected, dispReceiver, cfgVars,
                   loopVars>>

\* set_hdmi has saved the other blank flag (app.py 454).
CfgSetBlank ==
    /\ pcD # "stopped"
    /\ cfgBlank' = ~cfgBlank
    /\ UNCHANGED <<chanVars, setVars, handleVars, readerVars, selVars, updVars, callVars,
                   dispSelected, dispReceiver, cfgState, cfgMessage, resCfg, fileVars, loopVars>>

\* The file is removed, damaged (its content is kept aside) or put back.
CfgStates == {"ok", "missing", "corrupt"}

CfgDamage(st) ==
    /\ pcD # "stopped"
    /\ st # cfgState
    /\ cfgState' = st
    /\ UNCHANGED <<chanVars, setVars, handleVars, readerVars, selVars, updVars, callVars,
                   dispSelected, dispReceiver, cfgBlank, cfgMessage, resCfg, fileVars, loopVars>>

\* _load_config_file (app.py 219-227): the parsed file, or {} when it is
\* missing or json.load raises.
EmptyConfig == [selected_source |-> NoName, hdmi_blank |-> FALSE, loaded |-> FALSE]

load_config_file ==
    IF cfgState = "ok"
       THEN [selected_source |-> cfgSelected, hdmi_blank |-> cfgBlank, loaded |-> TRUE]
       ELSE EmptyConfig

\* _get_config_dict (app.py 230-240), behind GET /api/config: the values of
\* the file, the defaults for what it lacks.
AppGetConfig ==
    /\ pcD # "stopped"
    /\ resCfg' = load_config_file
    /\ resCfg' # resCfg
    /\ UNCHANGED <<chanVars, setVars, handleVars, readerVars, selVars, updVars, callVars,
                   dispSelected, dispReceiver, cfgBlank, cfgState, cfgMessage, fileVars, loopVars>>

ConfigStep ==
    \/ \E name \in Names : CfgSetSource(name)
    \/ CfgSetBlank
    \/ \E st \in CfgStates : CfgDamage(st)

\* The display starts with whatever the config file holds.
InitDisplay ==
    /\ InitApp
    /\ InitHandles
    /\ InitCallers
    /\ dispSelected = NoName
    /\ dispReceiver = None
    /\ pcD = "init"
    /\ dispBlank = FALSE
    /\ blank_alpha = 0
    /\ fadeFull = FALSE
    /\ fadeClear = FALSE
    /\ dispMessage = DefaultMessage
    /\ dBranch = "none"
    /\ dText = <<>>
    /\ dFaded = FALSE
    /\ dFlipped = FALSE
    /\ InitFadeObs
    /\ InitScaleCache
    /\ srcSizes = {<<1280, 720>>}
    /\ cfgBlank = FALSE
    /\ cfgState \in CfgStates
    /\ cfgMessage \in {NoMessage} \cup (Templates \ {DefaultMessage})
    /\ resCfg = NoPayload
    /\ InitNoSaves

\* The fade seen tick by tick: the display loop with steps that add up to
\* exactly 255 (127 + 127 + 1, 254 + 1) and the blank flag of the config
\* file either way at the start and toggled by set_hdmi.
FineSteps == {0, 1, 127, 254}

InitFade ==
    /\ InitApp
    /\ InitHandles
    /\ InitCallers
    /\ InitDisplayFields
    /\ cfgBlank \in BOOLEAN
    /\ cfgState = "ok"
    /\ cfgMessage = NoMessage
    /\ resCfg = NoPayload
    /\ InitNoSaves

NextFade ==
    \/ \E o \in ConnectOutcomes : DispLoadConfig(o)
    \/ \E found \in Discoveries, o \in ConnectOutcomes : DispStart(found, o)
    \/ DispQuit
    \/ \E due \in BOOLEAN, o \in ConnectOutcomes : DispCheckConfig(due, o)
    \/ \E o \in CaptureOutcomes : DispRender(o)
    \/ \E step \in FineSteps : DispFade(step)
    \/ DispFlip
    \/ CfgSetBlank

SpecFade == InitFade /\ [][NextFade]_vars

\* The scale cache seen frame by frame: the display loop with a source that
\* changes its frame size at will (1080p, 720p, a 16:9 size whose quotient
\* 1920/1408 is no binary fraction, and a 5:4 size that is pillarboxed), the
\* config file left alone.
FrameSizes == {<<1920, 1080>>, <<1280, 720>>, <<1408, 792>>, <<720, 576>>}

InitScale ==
    /\ InitApp
    /\ InitHandles
    /\ InitCallers
    /\ InitDisplayLoop
    /\ srcSizes = FrameSizes
    /\ cfgBlank = FALSE
    /\ cfgState = "ok"
    /\ cfgMessage = NoMessage
    /\ resCfg = NoPayload
    /\ InitNoSaves

SpecScale == InitScale /\ [][DisplayLoopStep]_vars

\* The running display with the blank flag toggled by set_hdmi and sources
\* selected by select_source. The loop has
\* no waiting point of its own, so it keeps taking steps until it is told to
\* quit (weak fairness of the loop), and time.time() moves on between ticks:
\* each iteration sleeps or waits for a frame (229, 240, 243), so a tick that
\* clears with dt > 0 is taken if ticks that clear keep coming (strong
\* fairness of ClearingTick).
ClearingTick == \E step \in FadeSteps \ {0} : DispFade(step) /\ ~dispBlank

NextTicks == DisplayLoopStep \/ CfgSetBlank \/ \E name \in Names : CfgSetSource(name)

FairFade ==
    /\ InitFade
    /\ [][NextTicks]_vars
    /\ WF_vars(DisplayLoopStep)
    /\ SF_vars(ClearingTick)

NextDisplay == DisplayLoopStep \/ ConfigStep

SpecDisplay == InitDisplay /\ [][NextDisplay]_vars

\* The display and GET /api/config against a config file that comes and goes.
NextResilience == DisplayLoopStep \/ ConfigStep \/ AppGetConfig

\* The config file holds a message of its own.
InitResilience == InitDisplay /\ cfgMessage = <<"No signal from ", SourceToken>>

SpecResilience == InitResilience /\ [][NextResilience]_vars

(* ---- one capture call with a video frame in hand (ndi.py 94-165, ------ *)
(* ---- 328-377, 405-426, 455-473) ---------------------------------------- *)
FourCCs == {"UYVY", "BGRA", "BGRX", "RGBA", "RGBX", "other"}

\* Sample bytes of a UYVY pair <<U, Y0, V, Y1>>: the ends of the byte range,
\* the ends of the video range and the neutral values.
ChromaBytes == {0, 16, 90, 128, 240, 255}
LumaBytes == {0, 16, 17, 128, 235, 255}
PixelPairs == {<<u, y0, v, y1>> : u \in ChromaBytes, y0 \in LumaBytes, v \in ChromaBytes,
                                  y1 \in {16, 255}}

\* A plausible slip: the shift rounds toward zero.
Shr8_Truncating(x) == IF x >= 0 THEN x \div 256 ELSE -((-x) \div 256)

\* `x >> 8` on a signed integer (int32 in numpy, int64 in numba): the floor
\* of x / 256.
Shr8(x) == x \div 256

\* np.clip(x, 0, 255)
Clip(x) == IF x < 0 THEN 0 ELSE IF x > 255 THEN 255 ELSE x

\* _uyvy_to_rgb_numpy (94-120) on one pair: <<r0, g0, b0, r1, g1, b1>>.
uyvy_to_rgb_numpy(p) ==
    LET cb == p[1] - 128
        cr == p[3] - 128
        c0 == p[2] - 16
        c1 == p[4] - 16
        r_chroma == Shr8(409 * cr + 128)
        g_chroma == Shr8(-100 * cb - 208 * cr + 128)
        b_chroma == Shr8(516 * cb + 128)
        c0_scaled == Shr8(298 * c0)
        c1_scaled == Shr8(298 * c1)
    IN  <<Clip(c0_scaled + r_chroma), Clip(c0_scaled + g_chroma), Clip(c0_scaled + b_chroma),
          Clip(c1_scaled + r_chroma), Clip(c1_scaled + g_chroma), Clip(c1_scaled + b_chroma)>>

\* _uyvy_to_rgb_numba (125-165) on one pair: the same terms, clamped with
\* min(max(x, 0), 255).
uyvy_to_rgb_numba(p) ==
    LET cb == p[1] - 128
        cr == p[3] - 128
        c0 == p[2] - 16
        c1 == p[4] - 16
        r_chroma == Shr8(409 * cr + 128)
        g_chroma == Shr8(-100 * cb - 208 * cr + 128)
        b_chroma == Shr8(516 * cb + 128)
        c0_scaled == Shr8(298 * c0)
        c1_scaled == Shr8(298 * c1)
        r0 == c0_scaled + r_chroma
        g0 == c0_scaled + g_chroma
        b0 == c0_scaled + b_chroma
        r1 == c1_scaled + r_chroma
        g1 == c1_scaled + g_chroma
        b1 == c1_scaled + b_chroma
    IN  <<Min(Max(r0, 0), 255), Min(Max(g0, 0), 255), Min(Max(b0, 0), 255),
          Min(Max(r1, 0), 255), Min(Max(g1, 0), 255), Min(Max(b1, 0), 255)>>

\* Whether the array _convert_frame_to_rgb returns shares memory with the
\* frame buffer np.frombuffer wraps: array[:, :, [2, 1, 0]] (BGRA, BGRX) is an
\* index-array selection and so a copy; array[:, :, :3] (RGBA, RGBX) is a
\* basic slice and so a view; the UYVY converters fill a new np.empty array.
SharesFrameBuffer(fourcc) == fourcc \in {"RGBA", "RGBX"}

\* The frames are two pixels wide: a UYVY row is one pair and its padding.
FrameWidth == 2

\* stride = video_frame.line_stride_in_bytes if ... else width * 2 (356)
EffectiveStride(stride) == IF stride # 0 THEN stride ELSE FrameWidth * 2

\* A plausible slip: the rows are taken to follow each other without padding.
RowStart_Packed(stride, y) == y * FrameWidth * 2

\* uyvy = ...reshape((height, stride)): row y starts at byte y * stride.
RowStart(stride, y) == y * stride

\* active = uyvy[:, :width * 2] (367): the first width * 2 bytes of row y.
ActiveRow(buf, stride, y) ==
    SubSeq(buf, RowStart(stride, y) + 1, RowStart(stride, y) + FrameWidth * 2)

RECURSIVE ConvertRows(_, _, _, _)
\* The converter over rows 0 .. yres - 1, the rows of pixels one after the other.
ConvertRows(buf, stride, yres, numba) ==
    IF yres = 0 THEN <<>>
    ELSE ConvertRows(buf, stride, yres - 1, numba) \o
         (IF numba THEN uyvy_to_rgb_numba(ActiveRow(buf, stride, yres - 1))
                   ELSE uyvy_to_rgb_numpy(ActiveRow(buf, stride, yres - 1)))

\* The formats of four bytes per pixel.
PackedFourCCs == {"BGRA", "BGRX", "RGBA", "RGBX"}

\* array[:, :, [2, 1, 0]] (BGRA, BGRX) and array[:, :, :3] (RGBA, RGBX) on the
\* four bytes of one pixel.
Channels(fourcc, px) ==
    IF fourcc \in {"BGRA", "BGRX"} THEN <<px[3], px[2], px[1]>> ELSE <<px[1], px[2], px[3]>>

\* np.frombuffer over width * height * 4 bytes, .reshape((height, width, 4))
\* (336-340, 345-349): pixel n = y * width + x is the four bytes from byte
\* 4 * n on; line_stride_in_bytes is not read.
PixelStart(stride, n) == 4 * n

RECURSIVE PackedRows(_, _, _, _)
\* The first n pixels of the reshaped array, channel-selected, in order.
PackedRows(fourcc, buf, stride, n) ==
    IF n = 0 THEN <<>>
    ELSE PackedRows(fourcc, buf, stride, n - 1) \o
         Channels(fourcc, SubSeq(buf, PixelStart(stride, n - 1) + 1, PixelStart(stride, n - 1) + 4))

\* _convert_frame_to_rgb (328-377): raises on any other FourCC.
convert_frame_to_rgb(fourcc, pix, stride, yres, numba) ==
    IF fourcc = "UYVY"
       THEN [ok |-> TRUE, view |-> SharesFrameBuffer(fourcc),
             rgb |-> ConvertRows(pix, EffectiveStride(stride), yres, numba)]
    ELSE IF fourcc \in PackedFourCCs
       THEN [ok |-> TRUE, view |-> SharesFrameBuffer(fourcc),
             rgb |-> PackedRows(fourcc, pix, stride, FrameWidth * yres)]
    ELSE [ok |-> FALSE, view |-> FALSE, rgb |-> NoPixels]

\* The first statement of the try block: rgb_array = self._convert_frame_to_rgb(...).
CvConvert ==
    /\ pcV = "captured"
    /\ LET c == convert_frame_to_rgb(cvFourCC, cvPix, cvStride, cvYres, cvNumba)
       IN  IF c.ok
              THEN /\ pcV' = "converted"
                   /\ cvView' = c.view
                   /\ cvRgb' = c.rgb
                   /\ UNCHANGED cvResult
              ELSE /\ pcV' = "finally"
                   /\ cvResult' = "raise"
                   /\ UNCHANGED <<cvView, cvRgb>>
    /\ UNCHANGED <<chanVars, setVars, handleVars, readerVars, selVars, updVars, pcC, nCloses, nDestroyed, dispVars,
                   cvType, cvFourCC, cvPix, cvStride, cvYres, cvMethod, cvResize, cvFails, cvNumba, cvReleased, cvSeen>>

\* The rest of the try block. get_jpeg_frame (409-419): Image.fromarray, the
\* optional resize and img.save build the bytes from a copy of the pixels.
\* get_rgb_frame (459-466): with an output size, Image.fromarray, resize and
\* np.asarray give a new array; without one, rgb_array itself is returned.
CvFinish ==
    /\ pcV = "converted"
    /\ pcV' = "finally"
    /\ IF cvMethod = "jpeg"
          THEN IF cvFails
                  THEN cvResult' = "raise" /\ UNCHANGED cvView
                  ELSE cvResult' = "bytes" /\ cvView' = FALSE
          ELSE IF cvResize
                  THEN IF cvFails
                          THEN cvResult' = "raise" /\ UNCHANGED cvView
                          ELSE cvResult' = "array" /\ cvView' = FALSE
                  ELSE cvResult' = "array" /\ UNCHANGED cvView
    /\ UNCHANGED <<chanVars, setVars, handleVars, readerVars, selVars, updVars, pcC, nCloses, nDestroyed, dispVars,
                   cvType, cvFourCC, cvPix, cvStride, cvYres, cvMethod, cvResize, cvFails, cvNumba, cvRgb, cvReleased,
                   cvSeen>>

\* A plausible slip: the frame is freed after the try block instead of in a
\* finally, so an exception leaves it with the caller.
CvRelease_NotOnError ==
    /\ pcV = "finally"
    /\ pcV' = "returned"
    /\ cvReleased' = IF cvResult = "raise" THEN cvReleased ELSE cvReleased + 1
    /\ UNCHANGED <<chanVars, setVars, handleVars, readerVars, selVars, updVars, pcC, nCloses, nDestroyed, dispVars,
                   cvType, cvFourCC, cvPix, cvStride, cvYres, cvMethod, cvResize, cvFails, cvNumba, cvView, cvRgb,
                   cvResult, cvSeen>>

\* finally: NDIlib_recv_free_video_v2 (421-426, 468-473), then the call
\* returns or propagates.
CvRelease ==
    /\ pcV = "finally"
    /\ pcV' = "returned"
    /\ cvReleased' = cvReleased + 1
    /\ UNCHANGED <<chanVars, setVars, handleVars, readerVars, selVars, updVars, pcC, nCloses, nDestroyed, dispVars,
                   cvType, cvFourCC, cvPix, cvStride, cvYres, cvMethod, cvResize, cvFails, cvNumba, cvView, cvRgb,
                   cvResult, cvSeen>>

\* What the calling sink makes of the call. The display reads the returned
\* array (display.py 255: rgb_array.tobytes()); reading a view of a buffer
\* the SDK has taken back is undefined: the old pixels, other bytes, or a
\* fault. An exception of get_rgb_frame is caught by render_frame (display.py
\* 270-272), which draws nothing, as for None. gen yields the bytes of
\* get_jpeg_frame (app.py 643-648) and has no handler around the call (app.py
\* 638): an exception ends the generator.
CvUse ==
    /\ pcV = "returned"
    /\ pcV' = "used"
    /\ CASE cvResult = "array" ->
                IF cvView /\ cvReleased > 0
                   THEN cvSeen' \in {"pixels", "garbage", "fault"}
                   ELSE cvSeen' = "pixels"
         [] cvResult = "bytes" -> cvSeen' = "jpeg"
         [] cvResult = "raise" -> cvSeen' = IF cvMethod = "rgb" THEN "noframe" ELSE "ended"
         [] cvResult = "none" -> cvSeen' = "noframe"
    /\ UNCHANGED <<chanVars, setVars, handleVars, readerVars, selVars, updVars, pcC, nCloses, nDestroyed, dispVars,
                   cvType, cvFourCC, cvPix, cvStride, cvYres, cvMethod, cvResize, cvFails, cvNumba, cvView, cvRgb,
                   cvReleased, cvResult>>

\* One row of two four-byte pixels.
OneRow == <<10, 20, 30, 255, 40, 50, 60, 0>>

\* NDIlib_recv_capture_v2 has answered frame_type == 1: a frame of any FourCC
\* is in hand, in either method, of either build.
InitConvert ==
    /\ InitApp
    /\ InitHandles
    /\ pcC = [c \in Callers |-> "idle"]
    /\ nCloses = 0
    /\ nDestroyed = 0
    /\ InitDisplayFields
    /\ InitConfigFile
    /\ pcV = "captured"
    /\ cvType = "video"
    /\ cvFourCC \in FourCCs
    /\ cvPix \in (IF cvFourCC = "UYVY" THEN PixelPairs
                  ELSE IF cvFourCC \in PackedFourCCs THEN {OneRow} ELSE {NoPixels})
    /\ cvStride = 0
    /\ cvYres = 1
    /\ cvMethod \in {"jpeg", "rgb"}
    /\ cvResize \in BOOLEAN
    /\ cvFails \in BOOLEAN
    /\ cvNumba \in BOOLEAN
    /\ cvView = FALSE
    /\ cvRgb = NoPixels
    /\ cvReleased = 0
    /\ cvResult = "none"
    /\ cvSeen = "nothing"

NextConvert == CvConvert \/ CvFinish \/ CvRelease \/ CvUse

SpecConvert == InitConvert /\ [][NextConvert]_vars

\* UYVY frames of two rows with up to MaxPad bytes of padding after each row.
RowPairs == {<<128, 16, 128, 235>>, <<90, 128, 240, 17>>, <<255, 0, 0, 255>>}
PadBytes == {0, 255}
Paddings == UNION {[1 .. n -> PadBytes] : n \in 0 .. MaxPad}

\* The bytes at p_data: each row's pair, then its padding.
FrameBytes(pairs, pads) == pairs[1] \o pads[1] \o pairs[2] \o pads[2]

\* The head of get_jpeg_frame / get_rgb_frame (387-403, 449-453): a closed
\* receiver returns None before any capture; otherwise one
\* NDIlib_recv_capture_v2, and any answer but a video frame (nothing within
\* the timeout, or another frame type) returns None as well.
FrameTypes == {"closed", "none", "other", "video"}

CvCapture(t) ==
    /\ pcV = "calling"
    /\ cvType' = t
    /\ pcV' = IF t = "video" THEN "captured" ELSE "returned"
    /\ UNCHANGED <<chanVars, setVars, handleVars, readerVars, selVars, updVars, pcC, nCloses, nDestroyed, dispVars,
                   cvFourCC, cvPix, cvStride, cvYres, cvMethod, cvResize, cvFails, cvNumba, cvView, cvRgb,
                   cvReleased, cvResult, cvSeen>>

\* One call from its first statement, the source having a frame of any
\* FourCC to give.
InitCapture ==
    /\ InitApp
    /\ InitHandles
    /\ pcC = [c \in Callers |-> "idle"]
    /\ nCloses = 0
    /\ nDestroyed = 0
    /\ InitDisplayFields
    /\ InitConfigFile
    /\ pcV = "calling"
    /\ cvType = "none"
    /\ cvFourCC \in FourCCs
    /\ cvPix \in (IF cvFourCC = "UYVY" THEN {<<128, 16, 128, 255>>, <<90, 235, 240, 16>>}
                  ELSE IF cvFourCC \in PackedFourCCs THEN {OneRow} ELSE {NoPixels})
    /\ cvStride = 0
    /\ cvYres = 1
    /\ cvMethod \in {"jpeg", "rgb"}
    /\ cvResize \in BOOLEAN
    /\ cvFails \in BOOLEAN
    /\ cvNumba \in BOOLEAN
    /\ cvView = FALSE
    /\ cvRgb = NoPixels
    /\ cvReleased = 0
    /\ cvResult = "none"
    /\ cvSeen = "nothing"

NextCapture == (\E t \in FrameTypes : CvCapture(t)) \/ NextConvert

SpecCapture == InitCapture /\ [][NextCapture]_vars

InitStride ==
    /\ InitApp
    /\ InitHandles
    /\ pcC = [c \in Callers |-> "idle"]
    /\ nCloses = 0
    /\ nDestroyed = 0
    /\ InitDisplayFields
    /\ InitConfigFile
    /\ pcV = "captured"
    /\ cvType = "video"
    /\ cvFourCC = "UYVY"
    /\ cvYres = 2
    /\ \E pairs \in [1 .. 2 -> RowPairs], pads \in [1 .. 2 -> Paddings] :
          /\ Len(pads[1]) = Len(pads[2])
          /\ cvPix = FrameBytes(pairs, pads)
          /\ cvStride \in (IF Len(pads[1]) = 0 THEN {0, FrameWidth * 2}
                                               ELSE {FrameWidth * 2 + Len(pads[1])})
    /\ cvMethod \in {"jpeg", "rgb"}
    /\ cvResize = FALSE
    /\ cvFails = FALSE
    /\ cvNumba \in BOOLEAN
    /\ cvView = FALSE
    /\ cvRgb = NoPixels
    /\ cvReleased = 0
    /\ cvResult = "none"
    /\ cvSeen = "nothing"

SpecStride == InitStride /\ [][NextConvert]_vars

\* Frames of four bytes per pixel, two rows of two pixels, with up to MaxPad
\* bytes of padding after each row.
PackedPixels == {<<10, 20, 30, 255>>, <<200, 100, 50, 0>>}
PackedRowsIn == {p \o q : p, q \in PackedPixels}

InitPacked ==
    /\ InitApp
    /\ InitHandles
    /\ pcC = [c \in Callers |-> "idle"]
    /\ nCloses = 0
    /\ nDestroyed = 0
    /\ InitDisplayFields
    /\ InitConfigFile
    /\ pcV = "captured"
    /\ cvType = "video"
    /\ cvFourCC \in PackedFourCCs
    /\ cvYres = 2
    /\ \E rows \in [1 .. 2 -> PackedRowsIn], pads \in [1 .. 2 -> Paddings] :
          /\ Len(pads[1]) = Len(pads[2])
          /\ cvPix = FrameBytes(rows, pads)
          /\ cvStride \in (IF Len(pads[1]) = 0 THEN {0, FrameWidth * 4}
                                               ELSE {FrameWidth * 4 + Len(pads[1])})
    /\ cvMethod \in {"jpeg", "rgb"}
    /\ cvResize = FALSE
    /\ cvFails = FALSE
    /\ cvNumba \in BOOLEAN
    /\ cvView = FALSE
    /\ cvRgb = NoPixels
    /\ cvReleased = 0
    /\ cvResult = "none"
    /\ cvSeen = "nothing"

SpecPacked == InitPacked /\ [][NextConvert]_vars

(* ---- the config file at the level of files: _save_config_fields ------- *)
(* ---- (app.py 186-216) against its readers ----------------------------- *)
\* The length of json.dump(d): `{`, `"selected_source": "A"` (22 characters),
\* `, `, `"hdmi_blank": true` (18) or `"hdmi_blank": false` (19), `}`.
JsonLen(d) ==
    2 + (IF d.src # NoName THEN 22 ELSE 0)
      + (IF d.src # NoName /\ d.blank # "absent" THEN 2 ELSE 0)
      + (IF d.blank = "true" THEN 18 ELSE IF d.blank = "false" THEN 19 ELSE 0)

DocContent(d) == [t |-> "doc", len |-> JsonLen(d), doc |-> d]

\* current.update(update)
DictUpdate(cur, upd) ==
    [src |-> IF upd.src # NoName THEN upd.src ELSE cur.src,
     blank |-> IF upd.blank # "absent" THEN upd.blank ELSE cur.blank]

\* One write() of json.dump(d) at offset 0 of a file that holds `old`: the
\* bytes beyond the new text stay.
WriteAtStart(old, d) ==
    IF JsonLen(d) >= old.len
       THEN DocContent(d)
       ELSE [t |-> "mixed", len |-> old.len, doc |-> d]

\* json.load of what is at CONFIG_FILE, for _save_config_fields: {} when the
\* file is missing (192) or json.load raises (196-197).
CurrentDict ==
    IF cfgIno # NoFile /\ inoData[cfgIno].t = "doc" THEN inoData[cfgIno].doc ELSE EmptyDict

\* The updates an endpoint saves.
UpdatesOf(w) ==
    IF w = "select_source"
       THEN {[src |-> n, blank |-> "absent"] : n \in Names}
       ELSE {[src |-> NoName, blank |-> b] : b \in {"true", "false"}}

\* An endpoint calls _save_config_fields(update).
SaveBegin(w, upd) ==
    /\ pcW[w] = "idle"
    /\ wCalls[w] < MaxSaves
    /\ wCalls' = [wCalls EXCEPT ![w] = @ + 1]
    /\ wUpd' = [wUpd EXCEPT ![w] = upd]
    /\ pcW' = [pcW EXCEPT ![w] = "read"]
    /\ UNCHANGED <<chanVars, setVars, handleVars, readerVars, selVars, updVars, callVars,
                   dispSelected, dispReceiver, cfgBlank, cfgState, cfgMessage, resCfg, loopVars,
                   cfgIno, tmpIno, inoData, wCur, wFd, wLast>>

\* 191-199: read the file, then current.update(update).
SaveRead(w) ==
    /\ pcW[w] = "read"
    /\ wCur' = [wCur EXCEPT ![w] = DictUpdate(CurrentDict, wUpd[w])]
    /\ pcW' = [pcW EXCEPT ![w] = "open"]
    /\ UNCHANGED <<chanVars, setVars, handleVars, readerVars, selVars, updVars, callVars,
                   dispSelected, dispReceiver, cfgBlank, cfgState, cfgMessage, resCfg, loopVars,
                   cfgIno, tmpIno, inoData, wUpd, wFd, wCalls, wLast>>

\* A file number no path and no open handle refers to.
InUse(i) == i = cfgIno \/ i = tmpIno \/ (\E w \in ConfigWriters : wFd[w] = i)

FreshIno == CHOOSE i \in Inodes : ~InUse(i) /\ (\A j \in Inodes : j < i => InUse(j))

\* The file system drops the content of a file once no path and no open
\* handle refers to it.
Reclaim(data, cfg, tmp, fds) ==
    [i \in Inodes |->
        IF i = cfg \/ i = tmp \/ (\E w \in ConfigWriters : fds[w] = i)
           THEN data[i] ELSE EmptyContent]

\* tmp = CONFIG_FILE.with_suffix(".tmp") (200) is one path for every call.
\* 201: open(tmp, "w") creates the file, or truncates the one another call
\* has left at the path.
SaveOpenTmp(w) ==
    /\ pcW[w] = "open"
    /\ LET f == IF tmpIno = NoFile THEN FreshIno ELSE tmpIno
       IN  /\ tmpIno' = f
           /\ inoData' = [inoData EXCEPT ![f] = EmptyContent]
           /\ wFd' = [wFd EXCEPT ![w] = f]
    /\ pcW' = [pcW EXCEPT ![w] = "write"]
    /\ UNCHANGED <<chanVars, setVars, handleVars, readerVars, selVars, updVars, callVars,
                   dispSelected, dispReceiver, cfgBlank, cfgState, cfgMessage, resCfg, loopVars,
                   cfgIno, wUpd, wCur, wCalls, wLast>>

\* 202-204: json.dump into the buffer, f.flush() writes it, os.fsync, close.
SaveWrite(w) ==
    /\ pcW[w] = "write"
    /\ wFd' = [wFd EXCEPT ![w] = NoFile]
    /\ inoData' = Reclaim([inoData EXCEPT ![wFd[w]] = WriteAtStart(@, wCur[w])],
                          cfgIno, tmpIno, wFd')
    /\ pcW' = [pcW EXCEPT ![w] = "replace"]
    /\ UNCHANGED <<chanVars, setVars, handleVars, readerVars, selVars, updVars, callVars,
                   dispSelected, dispReceiver, cfgBlank, cfgState, cfgMessage, resCfg, loopVars,
                   cfgIno, tmpIno, wUpd, wCur, wCalls, wLast>>

\* 207-208: os.replace(tmp, CONFIG_FILE) renames whatever file is at tmp; with
\* no file there it raises FileNotFoundError.
SaveReplace(w) ==
    /\ pcW[w] = "replace"
    /\ IF tmpIno # NoFile
          THEN cfgIno' = tmpIno /\ tmpIno' = NoFile
          ELSE UNCHANGED <<cfgIno, tmpIno>>
    /\ inoData' = Reclaim(inoData, cfgIno', tmpIno', wFd)
    /\ pcW' = [pcW EXCEPT ![w] = "cleanup"]
    /\ UNCHANGED <<chanVars, setVars, handleVars, readerVars, selVars, updVars, callVars,
                   dispSelected, dispReceiver, cfgBlank, cfgState, cfgMessage, resCfg, loopVars,
                   wUpd, wCur, wFd, wCalls, wLast>>

\* 209-214: finally, `if tmp.exists(): tmp.unlink()`; 215-216: an exception
\* of the call is logged and the call returns.
SaveCleanup(w) ==
    /\ pcW[w] = "cleanup"
    /\ tmpIno' = NoFile
    /\ inoData' = Reclaim(inoData, cfgIno, tmpIno', wFd)
    /\ wLast' = [wLast EXCEPT ![w] = wUpd[w]]
    /\ wUpd' = [wUpd EXCEPT ![w] = EmptyDict]
    /\ wCur' = [wCur EXCEPT ![w] = EmptyDict]
    /\ pcW' = [pcW EXCEPT ![w] = "idle"]
    /\ UNCHANGED <<chanVars, setVars, handleVars, readerVars, selVars, updVars, callVars,
                   dispSelected, dispReceiver, cfgBlank, cfgState, cfgMessage, resCfg, loopVars,
                   cfgIno, wFd, wCalls>>

SaverStep(w) ==
    \/ \E upd \in UpdatesOf(w) : SaveBegin(w, upd)
    \/ SaveRead(w)
    \/ SaveOpenTmp(w)
    \/ SaveWrite(w)
    \/ SaveReplace(w)
    \/ SaveCleanup(w)

\* How a reader finds the file at CONFIG_FILE: missing, not parseable, or a
\* document.
FoundState ==
    IF cfgIno = NoFile THEN "missing"
    ELSE IF inoData[cfgIno].t = "doc" THEN "ok"
    ELSE "corrupt"

\* A reader opens CONFIG_FILE and reads it (app.py 222-224, display.py
\* 159-161): it gets the file as it is at that moment.
FileRead ==
    /\ cfgState' = FoundState
    /\ IF FoundState = "ok"
          THEN /\ cfgSelected' = inoData[cfgIno].doc.src
               /\ cfgBlank' = (inoData[cfgIno].doc.blank = "true")
          ELSE UNCHANGED <<cfgSelected, cfgBlank>>
    /\ <<cfgState', cfgSelected', cfgBlank'>> # <<cfgState, cfgSelected, cfgBlank>>
    /\ UNCHANGED <<receiver, receiver_lock, selected_source_name, setVars, handleVars,
                   readerVars, selVars, updVars, callVars, dispSelected, dispReceiver, resCfg,
                   cfgMessage, fileVars, loopVars>>

\* The file before the calls: missing, or the document an earlier set_hdmi
\* call left.
InitFiles ==
    /\ cfgIno \in {NoFile, 1}
    /\ tmpIno = NoFile
    /\ \E b \in {"true", "false"} :
          inoData = [i \in Inodes |->
                       IF i = cfgIno THEN DocContent([src |-> NoName, blank |-> b])
                       ELSE EmptyContent]
    /\ pcW = [w \in ConfigWriters |-> "idle"]
    /\ wUpd = [w \in ConfigWriters |-> EmptyDict]
    /\ wCur = [w \in ConfigWriters |-> EmptyDict]
    /\ wFd = [w \in ConfigWriters |-> NoFile]
    /\ wCalls = [w \in ConfigWriters |-> 0]
    /\ wLast = [w \in ConfigWriters |-> EmptyDict]
    /\ cfgState = FoundState
    /\ cfgBlank = (cfgIno # NoFile /\ inoData[cfgIno].doc.blank = "true")
    /\ cfgMessage = NoMessage
    /\ resCfg = NoPayload

InitConfig ==
    /\ InitApp
    /\ InitHandles
    /\ InitCallers
    /\ InitDisplayFields
    /\ InitFiles

NextConfig ==
    \/ \E w \in ConfigWriters : SaverStep(w)
    \/ FileRead
    \/ AppGetConfig

SpecConfig == InitConfig /\ [][NextConfig]_vars

(* --------------------------- specification ----------------------------- *)
Next ==
    \/ \E r \in SwapReaders : ReaderStep(r)
    \/ \E s \in Selectors : SelectorStep(s)

Spec == Init /\ [][Next]_vars

(* ---- the whole application under fair scheduling: readers, one -------- *)
(* ---- select_source caller and one update_settings caller -------------- *)
FairSelectors == 11 .. (10 + NumFairSelectors)
FairUpdaters == 21 .. (20 + NumFairUpdaters)

\* One payload that takes update_settings through its three acquisitions of
\* settings_lock (quality, size, the get_settings() of the return).
FairPayloads == {[t |-> "dict", q |-> IntField(5), w |-> IntField(-7), h |-> IntField(3000)]}

FairUpdaterStep(u) ==
    \/ \E p \in FairPayloads : UpdBegin(u, p)
    \/ UpdWriteQuality(u)
    \/ UpdSize(u)
    \/ UpdReturn(u)

\* The select_source caller re-selects one name and its config writes
\* succeed: which name, and what the file holds, do not bear on blocking.
FairSelectorStep(s) ==
    \/ SelBegin(s, "A")
    \/ SelSave(s, TRUE)
    \/ SelRecord(s)
    \/ SelLock(s)
    \/ SelClose(s)
    \/ SelConstructBegin(s)
    \/ \E o \in ConnectOutcomes : SelConstructEnd(s, o)

FairNext ==
    \/ \E r \in Readers : ReaderStep(r)
    \/ \E s \in FairSelectors : FairSelectorStep(s)
    \/ \E u \in FairUpdaters : FairUpdaterStep(u)

\* What a running thread does on its own. A request arriving, a client
\* connecting, consuming a chunk or going away are the environment's and get
\* no fairness. A thread blocked on a threading.Lock that is released again
\* and again is eventually given it (strong fairness); capture and connect
\* return within their timeouts.
ReaderRuns(r) ==
    \/ RdLock(r)
    \/ RdSnapshot(r)
    \/ RdSetLock(r)
    \/ RdSetSnapshot(r)
    \/ RdEnterJpeg(r)
    \/ \E o \in CaptureOutcomes : RdCaptureReturn(r, o)

SelectorRuns(s) ==
    \/ SelSave(s, TRUE)
    \/ SelRecord(s)
    \/ SelLock(s)
    \/ SelClose(s)
    \/ SelConstructBegin(s)
    \/ \E o \in ConnectOutcomes : SelConstructEnd(s, o)

UpdaterRuns(u) == UpdWriteQuality(u) \/ UpdSize(u) \/ UpdReturn(u)

Fairness ==
    /\ \A r \in Readers : SF_vars(ReaderRuns(r))
    /\ \A s \in FairSelectors : SF_vars(SelectorRuns(s))
    /\ \A u \in FairUpdaters : SF_vars(UpdaterRuns(u))

FairSpec == Init /\ [][FairNext]_vars /\ Fairness

(* ======================= the claims, C1 .. C10 ========================= *)
AllSelectorsIdle == \A s \in Selectors : pcS[s] = "idle"

\* A select_source call is between closing the old receiver and publishing
\* the new one.
SwapInProgress == \E s \in Selectors : pcS[s] \in {"close", "construct", "constructing"}

\* The step in which the select_source call of s ends with a failed construction.
SelectFails(s) == pcS[s] = "constructing" /\ pcS'[s] = "idle" /\ hstate'[newH[s]] = "failed"

\* C1: the swap of the Frame Source is atomic for the streamed readers. The
\* handle a reader holds is a fully constructed one (live, or closed since);
\* and at the moment a reader reads `receiver` no swap is in progress, so what
\* it reads is a live handle, or null, and null only when nothing was ever
\* selected or the latest construction failed.
C1_AtomicSwap ==
    \A r \in Readers :
        /\ snap[r] # None => hstate[snap[r]] \in {"live", "closed"}
        /\ pcR[r] = "rlocked" =>
              /\ ~SwapInProgress
              /\ receiver # None => hstate[receiver] = "live"
              /\ receiver = None => (nh = 0 \/ hstate[nh] = "failed")

\* C1 witness: a reader works on the old handle, closed by a swap that has
\* published a new live one.
C1_Witness ==
    \E r \in Readers :
        /\ snap[r] # None /\ hstate[snap[r]] = "closed"
        /\ receiver # None /\ receiver # snap[r] /\ hstate[receiver] = "live"

\* C2: select_source never waits for a capture in flight: no select_source
\* call stands at receiver.close() while a reader is inside the capture call
\* on that receiver (and so owns the lock close needs).
C2_SelectNeverWaitsForCapture ==
    \A s \in Selectors :
        pcS[s] = "close" =>
            ~(\E r \in Readers : pcR[r] = "capture" /\ snap[r] = receiver /\ hlock[receiver] = r)

\* C3: a reader that has called get_jpeg_frame (waiting for the handle, inside
\* the capture and encoding, or yielding the chunk) owns neither
\* receiver_lock nor settings_lock.
C3_NoLockAcrossCapture ==
    \A r \in Readers :
        pcR[r] \in {"hwait", "capture", "yield"} => receiver_lock # r /\ settings_lock # r

\* C3 witness: a reader is inside the capture call while a select_source call
\* owns receiver_lock.
C3_Witness ==
    \E r \in Readers : pcR[r] = "capture" /\ receiver_lock \in Selectors

\* C4: capture calls are serialized per handle: at most one call of the
\* capture primitive is in flight on a receiver, whatever mix of
\* get_jpeg_frame and get_rgb_frame callers there is.
C4_CaptureSerialized == \A h \in Handles : InFlight(h) <= 1

\* C4 witness: one caller is inside the capture of get_jpeg_frame while a
\* get_rgb_frame call and another get_jpeg_frame call wait for the handle.
C4_Witness ==
    \E a, b, c \in Callers :
        pcC[a] = "jpegCapture" /\ pcC[b] = "rgb" /\ pcC[c] = "jpeg"

\* C5: no component blocks indefinitely. With capture and connect returning
\* within their timeouts and fair scheduling, every thread that is about to
\* acquire receiver_lock, settings_lock or a handle's lock gets past that
\* acquisition: a reader does not stay before an acquisition for ever, and
\* every select_source and update_settings call, whose only waits are its
\* lock acquisitions, returns.
ReaderWaits(r) == pcR[r] \in {"top", "setwait", "hwait"}

NameOfAll(n) == \A h \in 1 .. nh : hname[h] = n

C6_OneLiveHandle ==
    /\ \A h \in Handles : hstate[h] = "live" => (h = receiver \/ h = dispReceiver)
    /\ dispReceiver # None => hname[dispReceiver] = dispSelected
    /\ \A n \in Names :
          (AllSelectorsIdle /\ receiver # None /\ NameOfAll(n)) =>
              (selected_source_name = n /\ hname[receiver] = n)

\* C6 witness: the same name was selected twice, both connected: the first
\* handle is closed, the second is the only live one and is published.
C6_Witness ==
    /\ AllSelectorsIdle /\ nh = 2 /\ NameOfAll("A")
    /\ hstate[1] = "closed" /\ hstate[2] = "live" /\ receiver = 2
    /\ selected_source_name = "A"

\* C7: when the construction fails in select_source, the published handle is
\* null, no handle is left live, and the name this call asked for is the
\* recorded one, in memory and in the config file.
C7_FailureKeepsName ==
    [][\A s \in Selectors :
          SelectFails(s) =>
              /\ receiver' = None
              /\ \A h \in Handles : hstate'[h] # "live"
              /\ selected_source_name' = sname[s]
              /\ cfgSelected' = sname[s]]_vars

\* C8, as claimed: a failed selection is answered with a failure outcome.
RespOk(res) == res \in {"ok", "ok_pending"}

C8_FailureReportedAsFailure ==
    [][\A s \in Selectors : SelectFails(s) => ~RespOk(resS'[s])]_vars

\* C8, amended: a failed selection is answered {"ok": True, "pending": True},
\* a success without the "pending" mark, so the caller can tell them apart;
\* the step touches no reader, leaves the receiver null, and a reader that
\* finds it null goes round its loop again.
C8_FailureReportedAsPending ==
    [][\A s \in Selectors :
          /\ SelectFails(s) =>
                (resS'[s] = "ok_pending" /\ receiver' = None /\ readerVars' = readerVars)
          /\ (pcS[s] = "constructing" /\ pcS'[s] = "idle" /\ ~SelectFails(s)) =>
                resS'[s] = "ok"
          /\ \A r \in Readers :
                (pcR[r] = "rlocked" /\ receiver = None /\ pcR'[r] # "rlocked") =>
                    pcR'[r] = "top"]_vars

\* C8 witness: a selection has failed while a reader is connected and running.
C8_Witness ==
    \E s \in Selectors, r \in Readers :
        resS[s] = "ok_pending" /\ receiver = None /\ pcR[r] = "top" /\ nh > 0

\* C9: the published settings, and every snapshot a reader has taken, are
\* valid: quality in [20, 95] and the size 0 x 0 or inside 160..3840 x 120..2160.
SettingsValid(q, w, h) ==
    /\ q >= 20 /\ q <= 95
    /\ \/ w = 0 /\ h = 0
       \/ w >= 160 /\ w <= 3840 /\ h >= 120 /\ h <= 2160

C9_SettingsValid ==
    /\ SettingsValid(jpeg_quality, output_width, output_height)
    /\ \A r \in Readers :
          pcR[r] \in {"hwait", "capture"} => SettingsValid(sq[r], sw[r], sh[r])

\* C9 witness: a reader captures with a snapshot of clamped values (quality 5
\* became 20, the size -7 x 3000 became 160 x 2160).
C9_Witness ==
    \E r \in Readers : pcR[r] = "capture" /\ sq[r] = 20 /\ sw[r] = 160 /\ sh[r] = 2160

\* C10: an update whose size has exactly one of width and height zero (or
\* absent) is rejected with HTTP 400 and leaves the published size as it was.
FieldIsZero(f) == f = Absent \/ f = IntField(0)
OneSidedSize(u) ==
    /\ pw[u] # NonInt /\ ph[u] # NonInt
    /\ FieldIsZero(pw[u]) # FieldIsZero(ph[u])

C10_MismatchRejected ==
    [][\A u \in Updaters :
          (pcU[u] = "size" /\ OneSidedSize(u) /\ pcU'[u] # "size") =>
              /\ pcU'[u] = "idle" /\ resU'[u] = "http400"
              /\ output_width' = output_width
              /\ output_height' = output_height]_vars

\* C10 witness: an update was rejected after a size had been published, and
\* the published size is still there.
C10_Witness ==
    \E u \in Updaters :
        pcU[u] = "idle" /\ resU[u] = "http400" /\ output_width = 160 /\ output_height = 2160

(* ======================= the claims, C11 .. C20 ======================== *)
\* C11: a reader's loop never ends on its own. Whatever the capture call does
\* (no frame, a frame, a per-frame failure in conversion or encoding), the
\* reader skips the tick and goes round again; its generator is never ended
\* by an exception, only by the client going away.
C11_ReaderLoopNeverEnds ==
    [][\A r \in Readers :
          (pcR[r] = "capture" /\ pcR'[r] # "capture") => pcR'[r] \in {"top", "yield"}]_vars

\* C12: in the direct sink a per-frame error (capture, conversion, scaling)
\* is caught and counts as no frame for the tick: the iteration goes on to
\* the fade block and to the flip, and the loop comes round to its next
\* iteration with both done.
C12_FrameErrorSkipsTick ==
    /\ [](dBranch = "error" =>
            /\ pcD \in {"fade", "flip", "poll", "render", "stopped"}
            /\ pcD = "flip" => dFaded
            /\ pcD \in {"poll", "render", "stopped"} => (dFaded /\ dFlipped))
    /\ [][(pcD = "render" /\ pcD' # "render" /\ dBranch' = "error") => pcD' = "fade"]_vars
    /\ [][(dBranch = "error" /\ pcD = "fade") => (pcD' # "fade" => (pcD' = "flip" /\ dFaded'))]_vars
    /\ [][(dBranch = "error" /\ pcD = "flip") => (pcD' # "flip" => (pcD' = "poll" /\ dFlipped'))]_vars

\* C12 witness: the iteration in which the frame failed has run its fade
\* block and its flip, and the loop has started the next iteration.
C12_Witness ==
    dBranch = "error" /\ pcD = "render" /\ dFaded /\ dFlipped /\ dispReceiver # None

\* The display's latest connection attempt was for the name it stores and
\* failed (the name is unknown to the network).
DispConnectFailed ==
    /\ nh > 0 /\ hstate[nh] = "failed"
    /\ dispSelected # NoName /\ hname[nh] = dispSelected

\* C13: after an unknown source name was selected the direct sink has a null
\* handle and the fallback message it renders has <source> replaced by the
\* empty string.
C13_UnknownSourceRendersEmpty ==
    (DispConnectFailed /\ dBranch = "fallback") =>
        /\ dispReceiver = None
        /\ dText = FallbackText(dispMessage, NoName)

\* A reader that is not inside an iteration owns no lock of any kind.
OwnsNoLock(r) ==
    /\ receiver_lock # r
    /\ settings_lock # r
    /\ \A h \in Handles : hlock[h] # r

ReaderIsStale(r) ==
    /\ pcR[r] \in {"hwait", "capture"}
    /\ \/ sq[r] # jpeg_quality
       \/ sw[r] # output_width
       \/ sh[r] # output_height
       \/ snap[r] # receiver

C16_ResultOwnsItsPixels ==
    (cvReleased > 0 /\ cvResult \in {"bytes", "array"}) => ~cvView

\* The fixed-point transform as the specification words it, with the shift
\* taken as the floor of the division by 256.
FloorShift8(x) == CHOOSE q \in -300 .. 300 : 256 * q <= x /\ x < 256 * (q + 1)

Clamp255(x) == IF x < 0 THEN 0 ELSE IF x > 255 THEN 255 ELSE x

FixedPointRgb(y, u, v) ==
    <<Clamp255(FloorShift8(298 * (y - 16)) + FloorShift8(409 * (v - 128) + 128)),
      Clamp255(FloorShift8(298 * (y - 16)) + FloorShift8(-100 * (u - 128) - 208 * (v - 128) + 128)),
      Clamp255(FloorShift8(298 * (y - 16)) + FloorShift8(516 * (u - 128) + 128))>>

\* C20: the RGB pixels of a UYVY pair are the fixed-point transform of
\* (Y0, U, V) and (Y1, U, V), and the numpy and the numba path give the same
\* pixels.
C20_UyvyFixedPoint ==
    (cvFourCC = "UYVY" /\ pcV # "captured") =>
        /\ cvRgb = FixedPointRgb(cvPix[2], cvPix[1], cvPix[3]) \o
                   FixedPointRgb(cvPix[4], cvPix[1], cvPix[3])
        /\ uyvy_to_rgb_numpy(cvPix) = uyvy_to_rgb_numba(cvPix)

\* A converted pair with a channel clamped at each end and one in between.
C20_Witness ==
    /\ cvFourCC = "UYVY"
    /\ pcV = "converted"
    /\ cvNumba
    /\ \E i, j, k \in 1 .. 6 : cvRgb[i] = 0 /\ cvRgb[j] = 255 /\ cvRgb[k] \in 1 .. 254

\* C17: the content found at the config path is always a complete document
\* written by a single _save_config_fields call, never a partially written
\* one, however the calls and the readers interleave.
C17_ConfigAlwaysComplete ==
    cfgIno # NoFile => inoData[cfgIno].t = "doc"

AllSavesDone == \A w \in ConfigWriters : pcW[w] = "idle" /\ wCalls[w] > 0

\* C18: when every call has completed, each key of the config file holds the
\* value of the last call that wrote it: no update is lost.
C18_NoUpdateLost ==
    AllSavesDone =>
        /\ cfgIno # NoFile
        /\ inoData[cfgIno].t = "doc"
        /\ inoData[cfgIno].doc.src = wLast["select_source"].src
        /\ inoData[cfgIno].doc.blank = wLast["set_hdmi"].blank

\* The config file is missing or cannot be parsed.
ConfigDamaged == cfgState \in {"missing", "corrupt"}

\* C19: reading a missing or corrupt config file never raises and is never
\* fatal: _load_config_file answers the empty defaults, and the poll of the
\* direct sink leaves its source, its receiver, its blank flag and its message
\* as they were and goes on to render (unless the user quits).
C19_DamagedConfigIsHarmless ==
    /\ [][(ConfigDamaged /\ resCfg' # resCfg) => resCfg' = EmptyConfig]_vars
    /\ [][(ConfigDamaged /\ pcD = "poll" /\ pcD' \notin {"poll", "stopped"}) =>
             /\ pcD' = "render"
             /\ dispSelected' = dispSelected
             /\ dispReceiver' = dispReceiver
             /\ hstate' = hstate
             /\ dispBlank' = dispBlank
             /\ dispMessage' = dispMessage]_vars

\* The display renders with a receiver, a blank flag and a message it took
\* from the file before the file was damaged, and the API has answered the
\* defaults.
C19_Witness ==
    /\ ConfigDamaged
    /\ pcD = "render"
    /\ dispReceiver # None
    /\ hstate[dispReceiver] = "live"
    /\ dispBlank
    /\ dispMessage # DefaultMessage
    /\ resCfg = EmptyConfig

(* ======================= the claims, C21 .. C30 ======================== *)
\* The pair of row y of the frame, whatever its padding holds.
PairOfRow(y) ==
    SubSeq(cvPix, y * EffectiveStride(cvStride) + 1, y * EffectiveStride(cvStride) + 4)

\* C21: for a UYVY frame of any line stride >= width * 2 the converter reads
\* only the active width * 2 bytes of each row, row y starting at byte
\* y * stride: the pixels are those of the rows' pairs, and no padding byte
\* has any influence on them.
C21_PaddingIgnored ==
    (cvFourCC = "UYVY" /\ pcV # "captured") =>
        /\ Len(cvRgb) = 6 * cvYres
        /\ \A y \in 0 .. (cvYres - 1) :
              SubSeq(cvRgb, 6 * y + 1, 6 * y + 6) =
                  FixedPointRgb(PairOfRow(y)[2], PairOfRow(y)[1], PairOfRow(y)[3]) \o
                  FixedPointRgb(PairOfRow(y)[4], PairOfRow(y)[1], PairOfRow(y)[3])

\* A converted frame of two different rows, each followed by two padding
\* bytes that differ from each other.
C21_Witness ==
    /\ pcV = "converted"
    /\ cvStride = FrameWidth * 2 + 2
    /\ cvPix[5] # cvPix[6]
    /\ SubSeq(cvRgb, 1, 6) # SubSeq(cvRgb, 7, 12)

\* C22: a frame whose FourCC is none of UYVY, BGRA, BGRX, RGBA, RGBX makes the
\* converter raise; the frame is released all the same, and the calling sink
\* takes the tick as one without a frame.
C22_UnsupportedIsSkippedTick ==
    (cvFourCC = "other" /\ pcV = "used") =>
        /\ cvResult = "raise"
        /\ cvReleased = 1
        /\ cvSeen = "noframe"

\* C23 as stated: alpha stays in [0,255], and every tick of the fade block
\* moves alpha strictly towards its target (up while blanked and below 255,
\* down while not blanked and above 0). A tick whose dt is 0 (the clock has
\* not advanced, or has stepped back and max(0.0, ...) clamps it) has step 0
\* and leaves alpha where it was.
C23_StrictlyMonotonic ==
    /\ [](blank_alpha \in 0 .. 255)
    /\ [][(pcD = "fade" /\ pcD' = "flip") =>
            /\ (dispBlank /\ blank_alpha < 255) => blank_alpha' > blank_alpha
            /\ (~dispBlank /\ blank_alpha > 0) => blank_alpha' < blank_alpha]_vars

\* C23, amended: alpha stays in [0,255]; a tick never moves alpha away from
\* its target, and a tick with a positive step moves it strictly towards the
\* target until the target is reached.
C23_MonotonicTowardTarget ==
    /\ [](blank_alpha \in 0 .. 255)
    /\ [][\A step \in FadeSteps : DispFade(step) =>
            /\ dispBlank => /\ blank_alpha' >= blank_alpha
                            /\ (step > 0 /\ blank_alpha < 255) => blank_alpha' > blank_alpha
            /\ ~dispBlank => /\ blank_alpha' =< blank_alpha
                             /\ (step > 0 /\ blank_alpha > 0) => blank_alpha' < blank_alpha]_vars

\* A tick has moved alpha part of the way up.
C23_Witness == pcD = "flip" /\ dispBlank /\ blank_alpha = 200 /\ ~fadeFull

\* A tick of the fade block prints one of the two fade events: it sets the
\* one-shot flag of its direction.
FadeEventFires ==
    /\ pcD = "fade" /\ pcD' = "flip"
    /\ (fadeFull' /\ ~fadeFull) \/ (fadeClear' /\ ~fadeClear)

\* check_config_update takes another value of hdmi_blank.
BlankChangeObserved == pcD = "poll" /\ pcD' = "render" /\ dispBlank' # dispBlank

\* C24: the fade events are edge-triggered. An event fires only when
\* hdmi_blank has changed direction and no event has fired since (so never
\* twice for one change and never without a change), and a change of
\* hdmi_blank seen by check_config_update clears both one-shot flags.
C24_EdgeTriggered ==
    /\ [][FadeEventFires => dPending]_vars
    /\ [][BlankChangeObserved => (~fadeFull' /\ ~fadeClear')]_vars

\* C25: blanking that starts at alpha 0 and is held. Once the steps of its
\* ticks add up to the whole transition (255) alpha is 255 and exactly one
\* "Fade complete: black" has been printed; never more than one is printed,
\* and alpha, once 255, stays 255.
C25_FullBlankOnce ==
    /\ [](fadeSum >= 255 => (blank_alpha = 255 /\ fullEvents = 1))
    /\ [](fadeSum >= 0 => fullEvents =< 1)
    /\ [][(fadeSum >= 0 /\ fadeSum' >= 0 /\ blank_alpha = 255) => blank_alpha' = 255]_vars

\* The steps 254 and 1, or 127, 127 and 1, have added up to the transition.
C25_Witness == pcD = "flip" /\ fadeSum = 255 /\ blank_alpha = 255 /\ fullEvents = 1

\* The size of the move of alpha in one tick.
AlphaMove == IF blank_alpha' >= blank_alpha THEN blank_alpha' - blank_alpha
             ELSE blank_alpha - blank_alpha'

\* C26 as stated: whatever the toggles of hdmi_blank before it, a tick moves
\* alpha by at most its step. The snap to the end moves it further: from 0
\* a step of 254 ends at 255.
C26_MoveWithinOneStep ==
    [][\A step \in FineSteps : DispFade(step) => AlphaMove =< step]_vars

\* C26, amended: a tick moves alpha by at most its step plus the snap, which
\* is at most 1.
C26_MoveWithinStepAndSnap ==
    [][\A step \in FineSteps : DispFade(step) => AlphaMove =< step + 1]_vars

\* hdmi_blank was toggled part of the way up and alpha is on its way down.
C26_Witness == pcD = "flip" /\ ~dispBlank /\ ~fadeClear /\ blank_alpha = 126

\* render_frame takes its first branch decision with alpha at 255.
RenderAtFullAlpha == pcD = "render" /\ pcD' = "fade" /\ blank_alpha = 255

\* C27 as stated: an iteration that starts with alpha at 255 paints black
\* and does not call the receiver. The iteration in which the unblanking is
\* taken starts at 255 too, and it draws the frame or the fallback.
C27_FullAlphaPaintsBlack == [][RenderAtFullAlpha => dBranch' = "black"]_vars

\* C27, amended: an iteration whose render_frame starts with hdmi_blank set
\* and alpha at 255 paints black and does not call the receiver.
C27_FullyBlankedPaintsBlack ==
    [][(RenderAtFullAlpha /\ dispBlank) => dBranch' = "black"]_vars

\* Fully blanked with a receiver at hand: black was painted instead.
C27_Witness ==
    /\ pcD = "fade" /\ dBranch = "black" /\ blank_alpha = 255 /\ dispBlank
    /\ dispReceiver # None /\ hstate[dispReceiver] = "live"

\* C28: the scaled size is computed for a frame exactly when the frame's
\* size is not that of the frame before (any size, for the first frame);
\* otherwise the cached size is left as it is and used, and an iteration
\* without a frame does not touch the cache.
C28_RecomputeIffSizeChanged ==
    [][(pcD = "render" /\ pcD' = "fade") =>
          IF dBranch' = "frame"
             THEN /\ dRecomputed' <=> (dSize' # prevSize)
                  /\ ~dRecomputed' => cachedScaled' = cachedScaled
                  /\ dBlit'[1] = cachedScaled'[1] /\ dBlit'[2] = cachedScaled'[2]
             ELSE /\ ~dRecomputed'
                  /\ cachedScaled' = cachedScaled /\ cachedFrame' = cachedFrame]_vars

\* A frame of the size of the frame before was drawn with the cached size,
\* after the size had changed at least once.
C28_Witness ==
    /\ pcD = "fade" /\ dBranch = "frame" /\ ~dRecomputed
    /\ nRecompute = 2 /\ dSize = <<720, 576>> /\ dBlit = <<1350, 1080, 285, 0>>

\* C29 as stated: however the frame sizes follow one another, the scaled
\* size has been computed once for each distinct size got so far (counted up
\* to MaxRecomputes). The cache holds one size: a size that comes back after
\* another one is computed again.
C29_OncePerDistinctSize == nRecompute = Min(MaxRecomputes, Cardinality(seenSizes))

\* C29, amended: the scaled size has been computed once for each change of
\* frame size, the first frame included, that is once for each run of
\* frames of equal size.
C29_OncePerSizeChange == nRecompute = nRuns

\* Three runs of two distinct sizes: the first size has come back.
C29_Witness ==
    /\ pcD = "fade" /\ dBranch = "frame"
    /\ nRuns = 3 /\ Cardinality(seenSizes) = 2 /\ dSize = cachedFrame

\* The scaled size in exact arithmetic: (floor(fw * s), floor(fh * s)) for
\* s the smaller of DisplayWidth / fw and DisplayHeight / fh.
FloorScaled(size) ==
    IF DisplayWidth * size[2] =< DisplayHeight * size[1]
       THEN <<DisplayWidth, (size[2] * DisplayWidth) \div size[1]>>
       ELSE <<(size[1] * DisplayHeight) \div size[2], DisplayHeight>>

\* The frame of this iteration is drawn within the display.
BlitFits ==
    /\ dBlit[1] =< DisplayWidth /\ dBlit[2] =< DisplayHeight
    /\ dBlit[3] >= 0 /\ dBlit[4] >= 0

\* C30: a frame is drawn at the floor of its own size times the fitting
\* scale, which is within the display on both axes, at offsets that are not
\* negative.
C30_TargetIsFloorScaled ==
    (pcD = "fade" /\ dBranch = "frame") =>
        /\ <<dBlit[1], dBlit[2]>> = FloorScaled(dSize)
        /\ BlitFits

(* ======================= the claims, C31 .. C40 ======================== *)
\* The branches of render_frame that call get_rgb_frame (once, 16 ms).
CaptureBranches == {"noframe", "frame", "error"}

\* C31: render_frame takes one branch, by priority: black when blanked with
\* alpha at 255, whatever the receiver; else the fallback message when there
\* is no receiver; else one get_rgb_frame call. The fallback text is drawn
\* in the fallback branch only and a frame is blitted in the frame branch only.
C31_OneBranchByPriority ==
    /\ [][(pcD = "render" /\ pcD' = "fade") =>
            IF dispBlank /\ blank_alpha >= 255 THEN dBranch' = "black"
            ELSE IF dispReceiver = None THEN dBranch' = "fallback"
            ELSE dBranch' \in CaptureBranches]_vars
    /\ [](dBranch \in {"none", "black", "fallback"} \cup CaptureBranches)
    /\ [](dText # <<>> => dBranch = "fallback")
    /\ [](dBlit # <<>> => dBranch = "frame")

\* Fully blanked without a receiver: black, not the fallback message.
C31_Witness ==
    /\ pcD = "fade" /\ dBranch = "black" /\ dispReceiver = None /\ dText = <<>>
    /\ dispBlank /\ blank_alpha = 255

\* C32: whatever branch render_frame took, the fade block runs next, once,
\* and then the flip; so when hdmi_blank has been taken as false with alpha
\* at 255, alpha leaves 255 and render_frame gets past its black branch,
\* unless the display is blanked again or told to quit first.
C32_FadeAdvancedEveryIteration ==
    /\ [][(pcD = "render" /\ pcD' # "render") => (pcD' = "fade" /\ ~dFaded')]_vars
    /\ [][(pcD = "fade" /\ pcD' # "fade") => (pcD' = "flip" /\ dFaded')]_vars
    /\ [][(pcD # "fade" /\ pcD' # "fade") => blank_alpha' = blank_alpha]_vars
    /\ (~dispBlank /\ blank_alpha = 255) ~> (blank_alpha < 255 \/ dispBlank \/ pcD = "stopped")
    /\ (~dispBlank /\ blank_alpha = 255) ~>
           ((pcD = "fade" /\ dBranch # "black") \/ dispBlank \/ pcD = "stopped")

\* The unblanking was taken at alpha 255, a tick has moved alpha down and
\* the next iteration has asked the receiver for a frame.
C32_Witness ==
    /\ pcD = "fade" /\ ~dispBlank /\ blank_alpha = 155 /\ dBranch \in CaptureBranches

\* C33: a call that got a video frame has freed it once by the time it
\* returns, whether it returns a result or raises, and not before it has
\* left its try block; a call that got none (closed receiver, timeout,
\* another frame type) has freed nothing.
C33_ReleasedExactlyOnce ==
    /\ pcV \in {"returned", "used"} => cvReleased = (IF cvType = "video" THEN 1 ELSE 0)
    /\ pcV \in {"calling", "captured", "converted", "finally"} => cvReleased = 0

\* A call whose conversion or encoding raised has returned with the frame
\* freed.
C33_Witness == pcV = "returned" /\ cvType = "video" /\ cvResult = "raise" /\ cvReleased = 1

\* C34: in every interleaving of select_source (and its close of the old
\* receiver) with readers that hold a stale snapshot, the capture primitive
\* is in flight only on a live handle: it is never invoked on a destroyed
\* handle and a handle is never destroyed during a capture on it; and a
\* get_jpeg_frame call on a closed handle returns None to the top of the
\* loop without taking the capture path, touching neither the handle's
\* lock state nor the receiver's frames.
StaleEntry(r) == pcR[r] = "hwait" /\ hstate[snap[r]] = "closed" /\ pcR'[r] # "hwait"

C34_NoCaptureOnDestroyed ==
    [][/\ \A h \in Handles : InFlight(h)' > 0 => hstate'[h] = "live"
       /\ \A h \in Handles : (hstate[h] = "live" /\ hstate'[h] = "closed") => InFlight(h) = 0
       /\ \A r \in Readers :
             StaleEntry(r) => (pcR'[r] = "top" /\ UNCHANGED <<hlock, hstate, hTs, lastTs>>)]_vars

\* C34 witness: select_source has destroyed the handle a reader still holds
\* as its snapshot, and the reader is about to call get_jpeg_frame on it,
\* while the newly published receiver is live.
C34_Witness ==
    \E r \in Readers :
        /\ pcR[r] = "hwait" /\ hstate[snap[r]] = "closed"
        /\ receiver # None /\ receiver # snap[r] /\ hstate[receiver] = "live"

\* C35: whenever no select_source call is in progress and a receiver is
\* published, the recorded selected_source_name and the persisted
\* selected_source are the source name of that receiver, whatever names the
\* concurrent select_source calls asked for.
C35_NameMatchesReceiver ==
    (AllSelectorsIdle /\ receiver # None) =>
        (selected_source_name = hname[receiver] /\ cfgSelected = hname[receiver])

\* C36: an update_settings call that is rejected with a validation error
\* leaves every published setting as it was: no step of a call whose payload
\* carries a size that will be rejected (a field that is not an integer, or
\* exactly one of width and height zero) changes jpeg_quality, output_width
\* or output_height, also when the payload carries a jpegQuality value.
SizeRejected(u) ==
    /\ pcU[u] \in {"quality", "size"}
    /\ ~(pw[u] = Absent /\ ph[u] = Absent)
    /\ \/ pw[u] = NonInt
       \/ ph[u] = NonInt
       \/ SizeMismatch(IntOrZero(pw[u]), IntOrZero(ph[u]))

C36_RejectedUpdateChangesNothing ==
    [][\A u \in Updaters :
          (SizeRejected(u) /\ pcU'[u] # pcU[u]) =>
              UNCHANGED <<jpeg_quality, output_width, output_height>>]_vars

\* C37: close is idempotent. Over every sequence of sequential or concurrent
\* close calls on one NDIReceiver, the destructor's call included, the native
\* receiver is destroyed at most once, and it is never destroyed on an object
\* whose constructor raised before a native receiver existed.
C37_CloseIdempotent ==
    /\ nDestroyed <= 1
    /\ hstate[SharedHandle] = "failed" => nDestroyed = 0
    /\ nDestroyed = 1 <=> hstate[SharedHandle] = "closed"

\* C37 witness: two or more close calls have completed on a connected
\* receiver while a third is on its way, and the native receiver was destroyed
\* once.
C37_Witness ==
    /\ nCloses = 2 /\ nDestroyed = 1
    /\ \E c \in Callers : pcC[c] = "close"

\* C38: with no source configured at startup and a discovery that returns at
\* least one source, the direct sink takes the first discovered source and
\* connects to it, and from then on it stays connected to it across its
\* config polls for as long as the persisted selected_source does not change.
AutoConnected ==
    /\ pcD \in {"poll", "render", "fade", "flip"}
    /\ cfgSelected = NoName
    /\ dispSelected # NoName
    /\ dispReceiver # None /\ hstate[dispReceiver] = "live"

C38_AutoConnectStays ==
    [][/\ \A found \in Discoveries \ {<<>>}, o \in ConnectOutcomes :
             (dispSelected = NoName /\ DispStart(found, o)) =>
                 /\ dispSelected' = found[1]
                 /\ o = "ok" => /\ dispReceiver' # None
                                /\ hstate'[dispReceiver'] = "live"
                                /\ hname'[dispReceiver'] = found[1]
       /\ (AutoConnected /\ cfgSelected' = cfgSelected /\ pcD' # "stopped") =>
             /\ dispSelected' = dispSelected
             /\ dispReceiver' = dispReceiver
             /\ hstate'[dispReceiver] = "live"]_vars

\* The sink stores a source name and holds no receiver: its last
\* connect_to_source failed.
FailedHold(pcs) ==
    /\ pcD \in pcs
    /\ dispSelected # NoName
    /\ dispReceiver = None

\* A due config poll that reads a selected_source different from the stored
\* one.
PollSeesChange == pcD = "poll" /\ pcD' = "render" /\ cfgState = "ok" /\ cfgSelected # dispSelected

\* After a failure the sink keeps the name and the null handle and makes no
\* connection attempt (no NDIReceiver is constructed) except in a poll that
\* reads a different name, and what it renders meanwhile is the fallback (or
\* black when fully blanked).
NoRetryFrom(pcs) ==
    (FailedHold(pcs) /\ ~PollSeesChange) =>
        /\ dispSelected' = dispSelected
        /\ dispReceiver' = None
        /\ nh' = nh
        /\ (pcD = "render" /\ pcD' # "render") => dBranch' \in {"fallback", "black"}

\* C39, as claimed: after connect_to_source fails for the configured name,
\* whenever that was, the sink keeps the name, holds a null handle and makes
\* no further connection attempt until a config poll observes a different
\* selected_source; until then it stays on the fallback.
C39_NoRetryAfterFailure ==
    [][NoRetryFrom({"start", "poll", "render", "fade", "flip"})]_vars

\* C39, amended: the same from the moment the loop runs: after a failure of
\* the attempt run() makes before the loop, or of one made by a config poll.
\* (A failure of the attempt load_config makes is followed by the attempt of
\* run(), with no poll in between.)
C39_NoRetryOnceRunning ==
    [][NoRetryFrom({"poll", "render", "fade", "flip"})]_vars

\* C39 witness: the configured source failed to connect twice (load_config,
\* then run), the config still names it, and the loop has rendered the
\* fallback and come back to its poll without a receiver.
C39_Witness ==
    /\ FailedHold({"poll"})
    /\ cfgSelected = dispSelected /\ cfgState = "ok"
    /\ nh = 2 /\ hstate[1] = "failed" /\ hstate[2] = "failed"
    /\ dBranch = "fallback"

\* The four bytes of pixel (x, y) of the frame in hand, row y starting at
\* byte y * stride.
StridedPixel(x, y) ==
    LET stride == IF cvStride # 0 THEN cvStride ELSE FrameWidth * 4
    IN  SubSeq(cvPix, y * stride + 4 * x + 1, y * stride + 4 * x + 4)

\* C40: for a BGRA, BGRX, RGBA or RGBX frame of any line stride >= width * 4
\* the converter reads pixel (x, y) from byte offset y * stride + 4 * x: the
\* output has width * height pixels, each the colour channels of the frame's
\* pixel at that place, and no padding byte appears in it or shifts it.
C40_PackedPaddingIgnored ==
    (cvFourCC \in PackedFourCCs /\ pcV # "captured") =>
        /\ Len(cvRgb) = 3 * FrameWidth * cvYres
        /\ \A y \in 0 .. (cvYres - 1), x \in 0 .. (FrameWidth - 1) :
              SubSeq(cvRgb, 3 * (y * FrameWidth + x) + 1, 3 * (y * FrameWidth + x) + 3) =
                  Channels(cvFourCC, StridedPixel(x, y))

====
